---------------------------- MODULE Spec2Model ----------------------------
(***************************************************************************)
(* HBnB business layer: the facade (app/services/facade.py) over the       *)
(* SQLAlchemy repositories (app/persistence), with the entity classes      *)
(* User, Place, Review and Amenity (app/models).                           *)
(*                                                                         *)
(* The state is the content of the four tables plus the place_amenity      *)
(* association.  Every facade call is one action: it runs the handler to   *)
(* its end, the final commit included, and records what the caller saw     *)
(* (returned value or raised exception) in `last`.                         *)
(*                                                                         *)
(* The two Repository classes of app/persistence/repository.py are also    *)
(* run side by side on the same calls (`storage`, `answers`), and the two  *)
(* creation endpoints are also run as requests that overlap (`requests`).  *)
(***************************************************************************)
EXTENDS Integers, Sequences, FiniteSets, TLC

\* Every record below lists its fields in this one order (TLC keeps the fields
\* of a record in the order in which it first met their names).
FieldOrder ==
    [amenities |-> 0, cascade |-> 0, created_at |-> 0, description |-> 0,
     durable |-> 0, email |-> 0, exc |-> 0,
     caller |-> 0, first_name |-> 0, id |-> 0, is_admin |-> 0, last_name |-> 0, latitude |-> 0,
     len |-> 0, longitude |-> 0, memory |-> 0, msg |-> 0, name |-> 0,
     objects |-> 0, ok |-> 0, op |-> 0,
     owner_id |-> 0, password |-> 0, payload |-> 0, pc |-> 0, place_id |-> 0, places |-> 0, price |-> 0,
     rating |-> 0, res |-> 0, ret |-> 0, reviews |-> 0, route |-> 0, rows |-> 0, s |-> 0,
     saved |-> 0, st |-> 0, status |-> 0,
     t |-> 0, text |-> 0,
     title |-> 0, user_id |-> 0, users |-> 0, v |-> 0]

(***************************************************************************)
(* Bounds of the model.  Ids are uuid4 strings in the code: fresh at every *)
(* construction and never reused.  Here the n-th persisted entity of a     *)
(* table gets id n, and a table stops growing at its bound.                *)
(***************************************************************************)
MaxUsers == 3
MaxPlaces == 1
MaxReviews == 2
MaxAmenities == 1

VARIABLES
    users,        \* users table: id -> row
    places,       \* places table: id -> row (amenities: its place_amenity rows)
    reviews,      \* reviews table: id -> row
    amenities,    \* amenities table: id -> row
    nextId,       \* per table, the number of ids handed out so far
    engine,       \* the storage engine behind SQLALCHEMY_DATABASE_URI
    last,         \* the last facade call and what it reported
    http,         \* the last HTTP request and the response it got
    storage,      \* an InMemoryRepository given the calls the users table gets
    answers,      \* what the two repositories answered to the last such call
    requests      \* the creation requests in progress, each at its own step

vars == <<users, places, reviews, amenities, nextId, engine, last, http,
          storage, answers, requests>>
db == <<users, places, reviews, amenities, nextId>>
\* what a facade call or a handler that runs alone, start to end, leaves alone
aside == <<storage, answers, requests>>

(***************************************************************************)
(* Python values.  None, numbers and strings are tagged so that a field    *)
(* may hold any of them.  A string is kept as its text and its length      *)
(* (the validators read only truthiness and len); an email is kept as its  *)
(* characters, since the validator matches it against a pattern.           *)
(***************************************************************************)
None == [t |-> "none"]
Num(v) == [t |-> "num", v |-> v]
Str(s, n) == [len |-> n, s |-> s, t |-> "str"]
Chars(cs) == [len |-> Len(cs), s |-> cs, t |-> "str"]
\* a datetime: the n-th instant
Stamp(n) == [t |-> "datetime", v |-> n]
\* datetime.utcnow() at a construction; the model has one such instant
utcnow == Stamp(1)

IsNone(x) == x.t = "none"
\* Python truthiness of None / str / number
Truthy(x) ==
    CASE x.t = "none" -> FALSE
      [] x.t = "str" -> x.len > 0
      [] x.t = "num" -> x.v # 0
      [] OTHER -> TRUE

\* dict.get(key, default) and `key in dict`
Has(d, k) == k \in DOMAIN d
Get(d, k, default) == IF k \in DOMAIN d THEN d[k] ELSE default
\* dict without a key (dict.pop)
Without(d, k) == [x \in (DOMAIN d) \ {k} |-> d[x]]

\* an id that no table holds: the absent / None id
NoId == 0
\* 'nonexistent-id', an id string that is no uuid of any row
GhostId == -1


Min(S) == CHOOSE x \in S : \A y \in S : x <= y

(***************************************************************************)
(* User (app/models/user.py)                                               *)
(***************************************************************************)
Lower == {"a","b","c","d","e","f","g","h","i","j","k","l","m",
          "n","o","p","q","r","s","t","u","v","w","x","y","z"}
Upper == {"A","B","C","D","E","F","G","H","I","J","K","L","M",
          "N","O","P","Q","R","S","T","U","V","W","X","Y","Z"}
Digit == {"0","1","2","3","4","5","6","7","8","9"}
LocalChars == Lower \cup Upper \cup Digit \cup {".", "_", "%", "+", "-"}
DomainChars == Lower \cup Upper \cup Digit \cup {".", "-"}

\* re.match(r'^[a-zA-Z0-9._%+-]+@[a-zA-Z0-9.-]+\.[a-zA-Z]{2,}$', email)
_is_valid_email(email) ==
    /\ email.t = "str"
    /\ LET cs == email.s
           n == Len(cs)
       IN \E i \in 2..n : \E j \in (i + 2)..(n - 2) :
            /\ cs[i] = "@"
            /\ cs[j] = "."
            /\ \A k \in 1..(i - 1) : cs[k] \in LocalChars
            /\ \A k \in (i + 1)..(j - 1) : cs[k] \in DomainChars
            /\ \A k \in (j + 1)..n : cs[k] \in Lower \cup Upper

\* the password kept as it was given
hash_password_plain(password) == password

\* bcrypt.generate_password_hash(password): a digest, never the plaintext
hash_password(password) == [len |-> 60, s |-> <<"$2b$", password.s>>, t |-> "str"]

\* bcrypt.check_password_hash(digest, password)
verify_password(digest, password) == digest = hash_password(password)

NameMax == 50

\* User._validate: the message of the ValueError it raises, or "" when it passes
User_validate(u) ==
    IF ~Truthy(u.first_name) \/ u.first_name.len > NameMax
    THEN "First name is required and must be <= 50 characters"
    ELSE IF ~Truthy(u.last_name) \/ u.last_name.len > NameMax
    THEN "Last name is required and must be <= 50 characters"
    ELSE IF ~_is_valid_email(u.email)
    THEN "Invalid email format"
    ELSE ""

\* User.__init__ up to the call of _validate
User_init(first_name, last_name, email, password, is_admin) ==
    [created_at |-> utcnow,
     email |-> email,
     first_name |-> first_name,
     is_admin |-> is_admin,
     last_name |-> last_name,
     password |-> IF Truthy(password) THEN hash_password(password) ELSE Str("", 0)]

(***************************************************************************)
(* The storage engine.  config.py points development and tests at SQLite   *)
(* and production at MySQL.  Both enforce NOT NULL, UNIQUE and PRIMARY KEY *)
(* constraints at commit; SQLite as configured here does not enforce       *)
(* FOREIGN KEY constraints, MySQL (InnoDB) does.                           *)
(***************************************************************************)
Engines == {"sqlite", "mysql"}

\* the users table without its unique constraint
UniqueEmail_dropped(us) == TRUE

\* users.email: unique=True
UniqueEmail(us) ==
    \A a, b \in DOMAIN us : a # b => us[a].email # us[b].email

\* the reviews table without its unique constraint
UniqueUserPlace_dropped(rs) == TRUE

\* reviews: UniqueConstraint('user_id', 'place_id')
UniqueUserPlace(rs) ==
    \A a, b \in DOMAIN rs :
        a # b => ~(rs[a].user_id = rs[b].user_id /\ rs[a].place_id = rs[b].place_id)

\* place_amenity: primary key (place_id, amenity_id)
UniqueAssociation(ps) ==
    \A p \in DOMAIN ps :
        \A i, j \in 1..Len(ps[p].amenities) :
            i # j => ps[p].amenities[i] # ps[p].amenities[j]

\* amenities.name: unique=True
UniqueName(ams) ==
    \A a, b \in DOMAIN ams : a # b => ams[a].name # ams[b].name

\* nullable=False columns
NotNull(us, ps, rs, ams) ==
    /\ \A u \in DOMAIN us :
         /\ ~IsNone(us[u].first_name) /\ ~IsNone(us[u].last_name)
         /\ ~IsNone(us[u].email) /\ ~IsNone(us[u].password)
    /\ \A p \in DOMAIN ps :
         /\ ~IsNone(ps[p].title) /\ ~IsNone(ps[p].price)
         /\ ps[p].owner_id # NoId
    /\ \A r \in DOMAIN rs :
         /\ ~IsNone(rs[r].text) /\ ~IsNone(rs[r].rating)
         /\ rs[r].place_id # NoId /\ rs[r].user_id # NoId
    /\ \A a \in DOMAIN ams : ~IsNone(ams[a].name)

\* db.ForeignKey('users.id'), db.ForeignKey('places.id'), db.ForeignKey('amenities.id')
ForeignKeys(us, ps, rs, ams) ==
    /\ \A p \in DOMAIN ps :
         /\ ps[p].owner_id \in DOMAIN us
         /\ \A i \in 1..Len(ps[p].amenities) : ps[p].amenities[i] \in DOMAIN ams
    /\ \A r \in DOMAIN rs :
         /\ rs[r].user_id \in DOMAIN us
         /\ rs[r].place_id \in DOMAIN ps

\* what the engine checks when a transaction commits
Constraints(us, ps, rs, ams) ==
    /\ UniqueEmail(us)
    /\ UniqueUserPlace(rs)
    /\ UniqueAssociation(ps)
    /\ UniqueName(ams)
    /\ NotNull(us, ps, rs, ams)
    /\ (engine = "mysql" => ForeignKeys(us, ps, rs, ams))

(***************************************************************************)
(* Outcomes of a facade call                                               *)
(***************************************************************************)
Call(op, id) == [id |-> id, op |-> op]

\* what the caller of the last facade call saw: the exception raised (class and
\* message) or the value returned (ret: the id of the entity returned, NoId for
\* None; ok: the boolean returned).  cascade: the reviews the call deleted.
Outcome(call, exc, msg, ret, ok, cascade) ==
    [cascade |-> cascade, exc |-> exc, id |-> call.id, msg |-> msg, ok |-> ok,
     op |-> call.op, ret |-> ret]

\* the handler raised before or at its commit: the transaction is rolled back
Raise(call, exc, msg) ==
    /\ last' = Outcome(call, exc, msg, NoId, FALSE, {})
    /\ UNCHANGED <<db, engine, aside>>

\* the handler returned without writing
Return(call, ret, ok) ==
    /\ last' = Outcome(call, "", "", ret, ok, {})
    /\ UNCHANGED <<db, engine, aside>>

\* the model follows the program until a table has handed out its last id
WithinBounds(nid) ==
    /\ nid.users <= MaxUsers
    /\ nid.places <= MaxPlaces
    /\ nid.reviews <= MaxReviews
    /\ nid.amenities <= MaxAmenities

\* a commit that raises after its writes reached the tables
Commit_unrolled(call, us, ps, rs, ams, nid, ret, ok) ==
    /\ WithinBounds(nid)
    /\ users' = us
    /\ places' = ps
    /\ reviews' = rs
    /\ amenities' = ams
    /\ nextId' = nid
    /\ last' = IF Constraints(us, ps, rs, ams)
               THEN Outcome(call, "", "", ret, ok, (DOMAIN reviews) \ (DOMAIN rs))
               ELSE Outcome(call, "IntegrityError", "constraint failed", NoId, FALSE, {})
    /\ UNCHANGED <<engine, aside>>

\* db.session.commit() of the handler's changes, then its return; a constraint
\* the engine rejects raises sqlalchemy.exc.IntegrityError and rolls back
Commit(call, us, ps, rs, ams, nid, ret, ok) ==
    IF Constraints(us, ps, rs, ams)
    THEN /\ WithinBounds(nid)
         /\ users' = us
         /\ places' = ps
         /\ reviews' = rs
         /\ amenities' = ams
         /\ nextId' = nid
         /\ last' = Outcome(call, "", "", ret, ok, (DOMAIN reviews) \ (DOMAIN rs))
         /\ UNCHANGED <<engine, aside>>
    ELSE Raise(call, "IntegrityError", "constraint failed")

(***************************************************************************)
(* Repository (app/persistence/repository.py)                              *)
(***************************************************************************)
\* SQLAlchemyRepository.get: the row's id, or NoId for None
repo_get(tbl, obj_id) == IF obj_id \in DOMAIN tbl THEN obj_id ELSE NoId

\* get_by_attribute that finds no row
get_by_attribute_none(tbl, attr_name, attr_value) == NoId

\* SQLAlchemyRepository.get_by_attribute: first row with that value, or NoId
get_by_attribute(tbl, attr_name, attr_value) ==
    LET m == {i \in DOMAIN tbl : tbl[i][attr_name] = attr_value}
    IN IF m = {} THEN NoId ELSE Min(m)

\* a table with one more row / one row changed
Put(tbl, id, row) == [i \in (DOMAIN tbl) \cup {id} |-> IF i = id THEN row ELSE tbl[i]]
\* a table without some rows
Drop(tbl, ids) == [i \in (DOMAIN tbl) \ ids |-> tbl[i]]

\* setattr(obj, key, value) for every key of data that names a column
\* setattr(obj, 'id', value): the primary key the row has after the payload
NewId(id, data) == IF Has(data, "id") THEN data.id ELSE id

\* the payload moves the row to a primary key that another row holds
PrimaryKeyTaken(tbl, id, data) ==
    NewId(id, data) # id /\ NewId(id, data) \in DOMAIN tbl

\* the table after the row `id` was written back under the key the payload names
Rekey(tbl, id, data, row) == Put(Drop(tbl, {id}), NewId(id, data), row)

SetAttrs(row, data) ==
    [f \in DOMAIN row |-> IF f \in DOMAIN data THEN data[f] ELSE row[f]]

(***************************************************************************)
(* The two Repository classes, as functions from the store and the call to *)
(* the store afterwards and the caller's result.  The objects are User     *)
(* instances; obj_id is the id the object got at construction.             *)
(***************************************************************************)
\* what a Repository method gave its caller: the exception raised, or the
\* boolean and the objects (id and attributes) returned
Result(exc, ok, rows) == [exc |-> exc, ok |-> ok, rows |-> rows]

NoResult == Result("", FALSE, {})

\* a method's effect: the store it leaves and the result it gives
Step(st, res) == [res |-> res, st |-> st]

\* the objects of a table with the given ids, as a caller sees them
Objects(tbl, ids) == {<<i, tbl[i]>> : i \in ids \cap DOMAIN tbl}

\* InMemoryRepository: _storage (objects) and, because BaseModel.update ends
\* with save(), the rows db.session holds for the objects that were updated
EmptyStorage == [objects |-> <<>>, saved |-> <<>>]

\* self._storage[obj.id] = obj
InMemoryRepository_add(st, obj_id, obj) ==
    Step([st EXCEPT !.objects = Put(st.objects, obj_id, obj)],
     NoResult)

\* self.db.session.add(obj); self.db.session.commit()
SQLAlchemyRepository_add(tbl, obj_id, obj) ==
    IF obj_id \notin DOMAIN tbl
       /\ Constraints(Put(tbl, obj_id, obj), places, reviews, amenities)
    THEN Step(Put(tbl, obj_id, obj), NoResult)
    ELSE Step(tbl, Result("IntegrityError", FALSE, {}))

\* self._storage.get(obj_id)
InMemoryRepository_get(st, obj_id) ==
    Step(st, Result("", FALSE, Objects(st.objects, {obj_id})))

\* self.model.query.get(obj_id)
SQLAlchemyRepository_get(tbl, obj_id) ==
    Step(tbl, Result("", FALSE, Objects(tbl, {obj_id})))

\* list(self._storage.values()), as the set of its members
InMemoryRepository_get_all(st) ==
    Step(st, Result("", FALSE, Objects(st.objects, DOMAIN st.objects)))

\* self.model.query.all(), as the set of its members
SQLAlchemyRepository_get_all(tbl) ==
    Step(tbl, Result("", FALSE, Objects(tbl, DOMAIN tbl)))

\* obj = self.get(obj_id); obj.update(data); return obj.  BaseModel.update
\* sets the attributes and calls save(): db.session.add(self) and commit.  A
\* commit the database rejects raises; the rollback restores an object the
\* session had loaded and leaves one it had not yet stored as it was set.
InMemoryRepository_update(st, obj_id, data) ==
    IF obj_id \notin DOMAIN st.objects
    THEN Step(st, NoResult)
    ELSE LET obj == SetAttrs(st.objects[obj_id], data)
             rows == Put(st.saved, obj_id, obj)
         IN IF Constraints(rows, places, reviews, amenities)
            THEN Step([objects |-> Put(st.objects, obj_id, obj), saved |-> rows],
                  Result("", FALSE, {<<obj_id, obj>>}))
            ELSE Step(IF obj_id \in DOMAIN st.saved THEN st
                         ELSE [st EXCEPT !.objects = Put(st.objects, obj_id, obj)],
                  Result("IntegrityError", FALSE, {}))

\* obj = self.get(obj_id); setattr for every key; self.db.session.commit()
SQLAlchemyRepository_update(tbl, obj_id, data) ==
    IF obj_id \notin DOMAIN tbl
    THEN Step(tbl, NoResult)
    ELSE LET obj == SetAttrs(tbl[obj_id], data)
             rows == Rekey(tbl, obj_id, data, obj)
         IN IF ~PrimaryKeyTaken(tbl, obj_id, data)
               /\ Constraints(rows, places, reviews, amenities)
            THEN Step(rows, Result("", FALSE, {<<NewId(obj_id, data), obj>>}))
            ELSE Step(tbl, Result("IntegrityError", FALSE, {}))

\* if obj_id in self._storage: del self._storage[obj_id]; return True
InMemoryRepository_delete(st, obj_id) ==
    IF obj_id \in DOMAIN st.objects
    THEN Step([st EXCEPT !.objects = Drop(st.objects, {obj_id})],
          Result("", TRUE, {}))
    ELSE Step(st, NoResult)

\* obj = self.get(obj_id); self.db.session.delete(obj); commit; return True
SQLAlchemyRepository_delete(tbl, obj_id) ==
    IF obj_id \notin DOMAIN tbl
    THEN Step(tbl, NoResult)
    ELSE IF \/ \E p \in DOMAIN places : places[p].owner_id = obj_id
            \/ \E r \in DOMAIN reviews : reviews[r].user_id = obj_id
    THEN Step(tbl, Result("IntegrityError", FALSE, {}))
    ELSE Step(Drop(tbl, {obj_id}), Result("", TRUE, {}))

\* the columns of the users table (BaseModel and User)
UserColumns ==
    {"id", "created_at", "updated_at", "first_name", "last_name", "email",
     "password", "is_admin"}

\* next(obj for obj in values if getattr(obj, attr_name, None) == attr_value):
\* an attribute the objects do not have is None, which equals no value asked
InMemoryRepository_get_by_attribute(st, attr_name, attr_value) ==
    Step(st,
     IF attr_name \in DOMAIN User_init(None, None, None, None, FALSE)
             THEN Result("", FALSE,
                         Objects(st.objects,
                                 {get_by_attribute(st.objects, attr_name, attr_value)}))
             ELSE NoResult)

\* self.model.query.filter_by(**{attr_name: attr_value}).first(): filter_by
\* raises InvalidRequestError for a name the entity does not have
SQLAlchemyRepository_get_by_attribute(tbl, attr_name, attr_value) ==
    Step(tbl,
     IF attr_name \in UserColumns
             THEN Result("", FALSE,
                         Objects(tbl, {get_by_attribute(tbl, attr_name, attr_value)}))
             ELSE Result("InvalidRequestError", FALSE, {}))

(***************************************************************************)
(* HBnBFacade: users                                                       *)
(***************************************************************************)
create_user(user_data) ==
    LET call == Call("create_user", NoId)
        existing_user == get_by_attribute(users, "email", Get(user_data, "email", None))
        user == User_init(Get(user_data, "first_name", None),
                          Get(user_data, "last_name", None),
                          Get(user_data, "email", None),
                          Get(user_data, "password", Str("", 0)),
                          Get(user_data, "is_admin", FALSE))
        id == nextId.users + 1
    IN IF existing_user # NoId
       THEN Raise(call, "ValueError", "Email already registered")
       ELSE IF User_validate(user) # ""
       THEN Raise(call, "ValueError", User_validate(user))
       ELSE Commit(call, Put(users, id, user), places, reviews, amenities,
                   [nextId EXCEPT !.users = id], id, TRUE)

\* update_user without its email check
update_user_email_taken_unchecked(user, user_data) == FALSE

\* the email check of update_user: the ValueError it raises, or none
update_user_email_taken(user, user_data) ==
    /\ Has(user_data, "email")
    /\ user_data.email # user.email
    /\ get_by_attribute(users, "email", user_data.email) # NoId

\* an update that raises for an id that is not persisted
update_user_raises(user_id, user_data) ==
    LET call == Call("update_user", user_id)
        user == users[user_id]
        hashed == IF Has(user_data, "password")
                  THEN [user EXCEPT !.password = hash_password(user_data.password)]
                  ELSE user
        updated == SetAttrs(hashed, Without(user_data, "password"))
    IN IF repo_get(users, user_id) = NoId
       THEN Raise(call, "ValueError", "User not found")
       ELSE IF update_user_email_taken(user, user_data)
       THEN Raise(call, "ValueError", "Email already registered")
       ELSE IF PrimaryKeyTaken(users, user_id, user_data)
       THEN Raise(call, "IntegrityError", "constraint failed")
       ELSE Commit(call, Rekey(users, user_id, user_data, updated), places, reviews,
                   amenities, nextId, NewId(user_id, user_data), TRUE)

update_user(user_id, user_data) ==
    LET call == Call("update_user", user_id)
        user == users[user_id]
        hashed == IF Has(user_data, "password")
                  THEN [user EXCEPT !.password = hash_password(user_data.password)]
                  ELSE user
        updated == SetAttrs(hashed, Without(user_data, "password"))
    IN IF repo_get(users, user_id) = NoId
       THEN Return(call, NoId, FALSE)
       ELSE IF update_user_email_taken(user, user_data)
       THEN Raise(call, "ValueError", "Email already registered")
       ELSE IF PrimaryKeyTaken(users, user_id, user_data)
       THEN Raise(call, "IntegrityError", "constraint failed")
       ELSE Commit(call, Rekey(users, user_id, user_data, updated), places, reviews,
                   amenities, nextId, NewId(user_id, user_data), TRUE)

\* session.delete(user): User.places and User.reviews carry no delete cascade,
\* so the ORM sets the children's owner_id / user_id to NULL before the DELETE
delete_user(user_id) ==
    LET call == Call("delete_user", user_id)
        ps == [p \in DOMAIN places |->
                 IF places[p].owner_id = user_id
                 THEN [places[p] EXCEPT !.owner_id = NoId] ELSE places[p]]
        rs == [r \in DOMAIN reviews |->
                 IF reviews[r].user_id = user_id
                 THEN [reviews[r] EXCEPT !.user_id = NoId] ELSE reviews[r]]
    IN IF repo_get(users, user_id) = NoId
       THEN Return(call, NoId, FALSE)
       ELSE Commit(call, Drop(users, {user_id}), ps, rs, amenities, nextId, NoId, TRUE)

(***************************************************************************)
(* Place (app/models/place.py)                                             *)
(***************************************************************************)
TitleMax == 100
LatMin == -90
LatMax == 90
LonMin == -180
LonMax == 180

\* Place._validate with the longitude bounds pasted into the latitude check
Place_validate_pasted(p) ==
    IF ~Truthy(p.title) \/ p.title.len > TitleMax
    THEN "Title is required and must be <= 100 characters"
    ELSE IF IsNone(p.price) \/ p.price.v < 0
    THEN "Price must be a positive value"
    ELSE IF ~IsNone(p.latitude) /\ (p.latitude.v < LonMin \/ p.latitude.v > LonMax)
    THEN "Latitude must be between -90 and 90"
    ELSE IF ~IsNone(p.longitude) /\ (p.longitude.v < LonMin \/ p.longitude.v > LonMax)
    THEN "Longitude must be between -180 and 180"
    ELSE ""

\* Place._validate: the message of the ValueError it raises, or "" when it passes
Place_validate(p) ==
    IF ~Truthy(p.title) \/ p.title.len > TitleMax
    THEN "Title is required and must be <= 100 characters"
    ELSE IF IsNone(p.price) \/ p.price.v < 0
    THEN "Price must be a positive value"
    ELSE IF ~IsNone(p.latitude) /\ (p.latitude.v < LatMin \/ p.latitude.v > LatMax)
    THEN "Latitude must be between -90 and 90"
    ELSE IF ~IsNone(p.longitude) /\ (p.longitude.v < LonMin \/ p.longitude.v > LonMax)
    THEN "Longitude must be between -180 and 180"
    ELSE ""

\* Place.__init__ up to the call of _validate (owner: the id of the User given)
Place_init(title, description, price, latitude, longitude, owner) ==
    [amenities |-> <<>>,
     created_at |-> utcnow,
     description |-> description,
     latitude |-> latitude,
     longitude |-> longitude,
     owner_id |-> owner,
     price |-> price,
     title |-> title]

InSeq(x, seq) == \E i \in 1..Len(seq) : seq[i] = x

\* Place.add_amenity without its membership test
add_amenity_append(amens, amenity) == Append(amens, amenity)

\* Place.add_amenity on the list place.amenities
add_amenity(amens, amenity) ==
    IF ~InSeq(amenity, amens) THEN Append(amens, amenity) ELSE amens

\* list.remove: the list without the first occurrence of x
RemoveFirst(seq, x) ==
    LET i == Min({k \in 1..Len(seq) : seq[k] = x})
    IN [k \in 1..(Len(seq) - 1) |-> IF k < i THEN seq[k] ELSE seq[k + 1]]

\* Place.remove_amenity on the list place.amenities
remove_amenity(amens, amenity) ==
    IF InSeq(amenity, amens) THEN RemoveFirst(amens, amenity) ELSE amens

\* for amenity_id in amenity_ids: amenity = get(amenity_id); if amenity: add_amenity
RECURSIVE add_amenities(_, _)
add_amenities(amens, amenity_ids) ==
    IF amenity_ids = <<>> THEN amens
    ELSE LET amenity == repo_get(amenities, Head(amenity_ids))
         IN add_amenities(IF amenity # NoId THEN add_amenity(amens, amenity) ELSE amens,
                          Tail(amenity_ids))

(***************************************************************************)
(* HBnBFacade: places                                                      *)
(***************************************************************************)
create_place(place_data) ==
    LET call == Call("create_place", NoId)
        owner == repo_get(users, Get(place_data, "owner_id", NoId))
        place == Place_init(Get(place_data, "title", None),
                            Get(place_data, "description", Str("", 0)),
                            Get(place_data, "price", None),
                            Get(place_data, "latitude", None),
                            Get(place_data, "longitude", None),
                            owner)
        withAmenities ==
            [place EXCEPT !.amenities =
                add_amenities(<<>>, Get(place_data, "amenities", <<>>))]
        id == nextId.places + 1
    IN IF owner = NoId
       THEN Raise(call, "ValueError", "Owner not found")
       ELSE IF Place_validate(place) # ""
       THEN Raise(call, "ValueError", Place_validate(place))
       ELSE Commit(call, users, Put(places, id, withAmenities), reviews, amenities,
                   [nextId EXCEPT !.places = id], id, TRUE)

update_place(place_id, place_data) ==
    LET call == Call("update_place", place_id)
        place == places[place_id]
        relinked == IF Has(place_data, "amenities")
                    THEN [place EXCEPT !.amenities =
                            add_amenities(<<>>, place_data.amenities)]
                    ELSE place
        updated == SetAttrs(relinked, Without(place_data, "amenities"))
    IN IF repo_get(places, place_id) = NoId
       THEN Return(call, NoId, FALSE)
       ELSE IF PrimaryKeyTaken(places, place_id, place_data)
       THEN Raise(call, "IntegrityError", "constraint failed")
       ELSE Commit(call, users, Rekey(places, place_id, place_data, updated), reviews,
                   amenities, nextId, NewId(place_id, place_data), TRUE)

\* Place.reviews without the delete cascade
place_cascade_none(place_id) == {}

\* the reviews session.delete(place) deletes with it:
\* Place.reviews has cascade='all, delete-orphan'
place_cascade(place_id) == {r \in DOMAIN reviews : reviews[r].place_id = place_id}

delete_place(place_id) ==
    LET call == Call("delete_place", place_id)
    IN IF repo_get(places, place_id) = NoId
       THEN Return(call, NoId, FALSE)
       ELSE Commit(call, users, Drop(places, {place_id}),
                   Drop(reviews, place_cascade(place_id)), amenities, nextId, NoId, TRUE)

(***************************************************************************)
(* Review (app/models/review.py)                                           *)
(***************************************************************************)
RatingMin == 1
RatingMax == 5

\* Review._validate: the message of the ValueError it raises, or "" when it passes
Review_validate(r) ==
    IF ~Truthy(r.text)
    THEN "Review text is required"
    ELSE IF IsNone(r.rating) \/ r.rating.v < RatingMin \/ r.rating.v > RatingMax
    THEN "Rating must be between 1 and 5"
    ELSE IF r.place_id = NoId
    THEN "Place is required"
    ELSE IF r.user_id = NoId
    THEN "User is required"
    ELSE ""

\* Review.__init__ up to the call of _validate (place, user: ids of the objects given)
Review_init(text, rating, place, user) ==
    [created_at |-> utcnow, place_id |-> place, rating |-> rating, text |-> text,
     user_id |-> user]

(***************************************************************************)
(* HBnBFacade: reviews                                                     *)
(***************************************************************************)
\* create_review without its owner check
is_own_place_never(place, user_id) == FALSE

\* `place.owner_id == user_id` in create_review
is_own_place(place, user_id) == places[place].owner_id = user_id

create_review(review_data) ==
    LET call == Call("create_review", NoId)
        place_id == Get(review_data, "place_id", NoId)
        user_id == Get(review_data, "user_id", NoId)
        place == repo_get(places, place_id)
        user == repo_get(users, user_id)
        review == Review_init(Get(review_data, "text", None),
                              Get(review_data, "rating", None),
                              place, user)
        id == nextId.reviews + 1
    IN IF place = NoId
       THEN Raise(call, "ValueError", "Place not found")
       ELSE IF user = NoId
       THEN Raise(call, "ValueError", "User not found")
       ELSE IF is_own_place(place, user_id)
       THEN Raise(call, "ValueError", "Cannot review your own place")
       ELSE IF Review_validate(review) # ""
       THEN Raise(call, "ValueError", Review_validate(review))
       ELSE Commit(call, users, places, Put(reviews, id, review), amenities,
                   [nextId EXCEPT !.reviews = id], id, TRUE)

\* for key in ['text', 'rating']: if key in review_data: setattr(review, key, ...)
\* the loop of update_user, over every key the payload supplies
update_review_fields_setattr(review, review_data) == SetAttrs(review, review_data)

update_review_fields(review, review_data) ==
    [f \in DOMAIN review |->
        IF f \in {"text", "rating"} /\ f \in DOMAIN review_data
        THEN review_data[f] ELSE review[f]]

update_review(review_id, review_data) ==
    LET call == Call("update_review", review_id)
    IN IF repo_get(reviews, review_id) = NoId
       THEN Return(call, NoId, FALSE)
       ELSE Commit(call, users, places,
                   Put(reviews, review_id,
                       update_review_fields(reviews[review_id], review_data)),
                   amenities, nextId, review_id, TRUE)

delete_review(review_id) ==
    LET call == Call("delete_review", review_id)
    IN IF repo_get(reviews, review_id) = NoId
       THEN Return(call, NoId, FALSE)
       ELSE Commit(call, users, places, Drop(reviews, {review_id}), amenities,
                   nextId, NoId, TRUE)

\* ReviewRepository.get_reviews_by_place / facade.get_reviews_by_place
get_reviews_by_place(place_id) == {r \in DOMAIN reviews : reviews[r].place_id = place_id}

\* facade.get_all_reviews
get_all_reviews == DOMAIN reviews

\* facade.get_review
get_review(review_id) == repo_get(reviews, review_id)

(***************************************************************************)
(* Amenity (app/models/amenity.py) and HBnBFacade: amenities               *)
(***************************************************************************)
\* Amenity._validate: the message of the ValueError it raises, or "" when it passes
Amenity_validate(a) ==
    IF ~Truthy(a.name) \/ a.name.len > NameMax
    THEN "Amenity name is required and must be <= 50 characters"
    ELSE ""

create_amenity(amenity_data) ==
    LET call == Call("create_amenity", NoId)
        amenity == [created_at |-> utcnow,
                    description |-> Get(amenity_data, "description", Str("", 0)),
                    name |-> Get(amenity_data, "name", None)]
        id == nextId.amenities + 1
    IN IF Amenity_validate(amenity) # ""
       THEN Raise(call, "ValueError", Amenity_validate(amenity))
       ELSE Commit(call, users, places, reviews, Put(amenities, id, amenity),
                   [nextId EXCEPT !.amenities = id], id, TRUE)

update_amenity(amenity_id, amenity_data) ==
    LET call == Call("update_amenity", amenity_id)
    IN IF repo_get(amenities, amenity_id) = NoId
       THEN Return(call, NoId, FALSE)
       ELSE IF PrimaryKeyTaken(amenities, amenity_id, amenity_data)
       THEN Raise(call, "IntegrityError", "constraint failed")
       ELSE Commit(call, users, places, reviews,
                   Rekey(amenities, amenity_id, amenity_data,
                         SetAttrs(amenities[amenity_id], amenity_data)),
                   nextId, NewId(amenity_id, amenity_data), TRUE)

\* session.delete(amenity): the ORM also deletes its place_amenity rows
delete_amenity(amenity_id) ==
    LET call == Call("delete_amenity", amenity_id)
        ps == [p \in DOMAIN places |->
                 [places[p] EXCEPT !.amenities = SelectSeq(@, LAMBDA a : a # amenity_id)]]
    IN IF repo_get(amenities, amenity_id) = NoId
       THEN Return(call, NoId, FALSE)
       ELSE Commit(call, users, ps, reviews, Drop(amenities, {amenity_id}),
                   nextId, NoId, TRUE)

(***************************************************************************)
(* Place.add_amenity / Place.remove_amenity called on a persisted place,   *)
(* followed by db.session.commit() (tests/test_models/test_place.py)       *)
(***************************************************************************)
place_add_amenity(place_id, amenity_id) ==
    LET call == Call("add_amenity", place_id)
    IN /\ place_id \in DOMAIN places
       /\ amenity_id \in DOMAIN amenities
       /\ Commit(call, users,
                 Put(places, place_id,
                     [places[place_id] EXCEPT !.amenities = add_amenity(@, amenity_id)]),
                 reviews, amenities, nextId, place_id, TRUE)

\* place.add_amenity(amenity); place.add_amenity(amenity); db.session.commit()
place_add_amenity_twice(place_id, amenity_id) ==
    LET call == Call("add_amenity_twice", place_id)
    IN /\ place_id \in DOMAIN places
       /\ amenity_id \in DOMAIN amenities
       /\ Commit(call, users,
                 Put(places, place_id,
                     [places[place_id] EXCEPT
                        !.amenities = add_amenity(add_amenity(@, amenity_id), amenity_id)]),
                 reviews, amenities, nextId, place_id, TRUE)

place_remove_amenity(place_id, amenity_id) ==
    LET call == Call("remove_amenity", place_id)
    IN /\ place_id \in DOMAIN places
       /\ amenity_id \in DOMAIN amenities
       /\ Commit(call, users,
                 Put(places, place_id,
                     [places[place_id] EXCEPT !.amenities = remove_amenity(@, amenity_id)]),
                 reviews, amenities, nextId, place_id, TRUE)

(***************************************************************************)
(* HTTP layer (app/api/v1): a handler runs for an authenticated caller,    *)
(* whose identity (caller) and is_admin claim come from the JWT of the     *)
(* request; req is the route of the handler                                *)
(***************************************************************************)
\* what the caller of a handler got back: the status code, and the message of
\* an error response
Response(route, status, msg) == [msg |-> msg, route |-> route, status |-> status]

NoRequest == Response("", 0, "")

\* api.abort(code, message) before any facade call
abort(req, code, message) ==
    /\ http' = Response(req, code, message)
    /\ UNCHANGED <<db, engine, last, aside>>

\* api.abort(code, message) after a facade getter (call) returned ret
abort_after(call, ret, req, code, message) ==
    /\ http' = Response(req, code, message)
    /\ last' = Outcome(call, "", "", ret, FALSE, {})
    /\ UNCHANGED <<db, engine, aside>>

\* the response after the facade call of the handler: the marshalled result
\* with `code`; `except ValueError as e: api.abort(400, str(e))`; any other
\* exception leaves the handler and becomes a 500
Responded(req, code) ==
    IF last'.exc = "" THEN Response(req, code, "")
    ELSE IF last'.exc = "ValueError" THEN Response(req, 400, last'.msg)
    ELSE Response(req, 500, last'.exc)

\* the response of a delete handler: 204, or 404 when the facade returned False
Deleted(req, message) ==
    IF last'.exc # "" THEN Response(req, 500, last'.exc)
    ELSE IF ~last'.ok THEN Response(req, 404, message)
    ELSE Response(req, 204, "")

\* d = payload.copy(); d[key] = value
SetKey(payload, key, value) ==
    [k \in (DOMAIN payload) \cup {key} |-> IF k = key THEN value ELSE payload[k]]

\* facade.get_user_by_email
get_user_by_email(email) == get_by_attribute(users, "email", email)

(***************************************************************************)
(* app/api/v1/places.py                                                    *)
(***************************************************************************)
\* a create handler that keeps the owner_id of a body that has one
PlaceList_post_body_owner(caller, payload) ==
    LET req == "POST /places"
        place_data == IF Has(payload, "owner_id") THEN payload
                      ELSE SetKey(payload, "owner_id", caller)
    IN /\ create_place(place_data)
       /\ http' = IF last'.exc = "ValueError" /\ last'.msg = "Owner not found"
                  THEN Response(req, 404, last'.msg)
                  ELSE Responded(req, 201)

PlaceList_post(caller, payload) ==
    LET req == "POST /places"
        place_data == SetKey(payload, "owner_id", caller)
    IN /\ create_place(place_data)
       /\ http' = IF last'.exc = "ValueError" /\ last'.msg = "Owner not found"
                  THEN Response(req, 404, last'.msg)
                  ELSE Responded(req, 201)

\* an ownership check that admins do not pass either
place_forbidden_admin_too(caller, is_admin, place_id) ==
    places[place_id].owner_id # caller

\* `not is_admin and place.owner_id != current_user_id`
place_forbidden(caller, is_admin, place_id) ==
    ~is_admin /\ places[place_id].owner_id # caller

PlaceResource_put(caller, is_admin, place_id, payload) ==
    LET req == "PUT /places"
    IN IF repo_get(places, place_id) = NoId
       THEN abort_after(Call("get_place", place_id), NoId, req, 404, "Place not found")
       ELSE IF place_forbidden(caller, is_admin, place_id)
       THEN abort_after(Call("get_place", place_id), place_id, req, 403,
                        "Unauthorized action")
       ELSE update_place(place_id, payload) /\ http' = Responded(req, 200)

PlaceResource_delete(caller, is_admin, place_id) ==
    LET req == "DELETE /places"
    IN IF repo_get(places, place_id) = NoId
       THEN abort_after(Call("get_place", place_id), NoId, req, 404, "Place not found")
       ELSE IF place_forbidden(caller, is_admin, place_id)
       THEN abort_after(Call("get_place", place_id), place_id, req, 403,
                        "Unauthorized action")
       ELSE delete_place(place_id) /\ http' = Deleted(req, "Place not found")

(***************************************************************************)
(* app/api/v1/reviews.py                                                   *)
(***************************************************************************)
\* `for review in existing_reviews: if review.user_id == current_user_id`
already_reviewed(caller, place_id) ==
    \E r \in get_reviews_by_place(place_id) : reviews[r].user_id = caller

ReviewList_post(caller, payload) ==
    LET req == "POST /reviews"
        review_data == SetKey(payload, "user_id", caller)
        place_id == Get(review_data, "place_id", NoId)
    IN IF repo_get(places, place_id) = NoId
       THEN abort_after(Call("get_place", place_id), NoId, req, 404, "Place not found")
       ELSE IF places[place_id].owner_id = caller
       THEN abort_after(Call("get_place", place_id), place_id, req, 400,
                        "You cannot review your own place")
       ELSE IF already_reviewed(caller, place_id)
       THEN abort_after(Call("get_reviews_by_place", place_id), NoId, req, 400,
                        "You have already reviewed this place")
       ELSE /\ create_review(review_data)
            /\ http' = IF last'.exc = "ValueError" /\ last'.msg = "User not found"
                       THEN Response(req, 404, last'.msg)
                       ELSE Responded(req, 201)

\* an ownership check that the owner of the reviewed listing passes too
review_forbidden_host_passes(caller, is_admin, review_id) ==
    /\ ~is_admin
    /\ reviews[review_id].user_id # caller
    /\ places[reviews[review_id].place_id].owner_id # caller

\* `not is_admin and review.user_id != current_user_id`
review_forbidden(caller, is_admin, review_id) ==
    ~is_admin /\ reviews[review_id].user_id # caller

ReviewResource_put(caller, is_admin, review_id, payload) ==
    LET req == "PUT /reviews"
    IN IF get_review(review_id) = NoId
       THEN abort_after(Call("get_review", review_id), NoId, req, 404,
                        "Review not found")
       ELSE IF review_forbidden(caller, is_admin, review_id)
       THEN abort_after(Call("get_review", review_id), review_id, req, 403,
                        "Unauthorized action")
       ELSE update_review(review_id, payload) /\ http' = Responded(req, 200)

\* a delete handler that checks the author before the existence
ReviewResource_delete_author_first(caller, is_admin, review_id) ==
    LET req == "DELETE /reviews"
    IN IF ~is_admin /\ (get_review(review_id) = NoId
                          \/ reviews[review_id].user_id # caller)
       THEN abort_after(Call("get_review", review_id), get_review(review_id), req, 403,
                        "Unauthorized action")
       ELSE IF get_review(review_id) = NoId
       THEN abort_after(Call("get_review", review_id), NoId, req, 404,
                        "Review not found")
       ELSE delete_review(review_id) /\ http' = Deleted(req, "Review not found")

ReviewResource_delete(caller, is_admin, review_id) ==
    LET req == "DELETE /reviews"
    IN IF get_review(review_id) = NoId
       THEN abort_after(Call("get_review", review_id), NoId, req, 404,
                        "Review not found")
       ELSE IF review_forbidden(caller, is_admin, review_id)
       THEN abort_after(Call("get_review", review_id), review_id, req, 403,
                        "Unauthorized action")
       ELSE delete_review(review_id) /\ http' = Deleted(req, "Review not found")

(***************************************************************************)
(* app/api/v1/users.py                                                     *)
(***************************************************************************)
UserList_post(is_admin, payload) ==
    LET req == "POST /users"
    IN IF ~is_admin
       THEN abort(req, 403, "Admin privileges required")
       ELSE IF get_user_by_email(Get(payload, "email", None)) # NoId
       THEN abort_after(Call("get_user_by_email", NoId),
                        get_user_by_email(Get(payload, "email", None)), req, 400,
                        "Email already registered")
       ELSE create_user(payload) /\ http' = Responded(req, 201)

\* `not is_admin and current_user_id != user_id`
user_forbidden(caller, is_admin, user_id) == ~is_admin /\ caller # user_id

\* a credentials check that looks at the email only
touches_credentials_email_only(is_admin, payload) ==
    ~is_admin /\ Has(payload, "email")

\* `if not is_admin: if 'email' in payload or 'password' in payload`
touches_credentials(is_admin, payload) ==
    ~is_admin /\ (Has(payload, "email") \/ Has(payload, "password"))

\* `is_admin and 'email' in payload` and another user holds that email
email_in_use(is_admin, user_id, payload) ==
    /\ is_admin
    /\ Has(payload, "email")
    /\ get_user_by_email(payload.email) \notin {NoId, user_id}

UserResource_put(caller, is_admin, user_id, payload) ==
    LET req == "PUT /users"
    IN IF repo_get(users, user_id) = NoId
       THEN abort_after(Call("get_user", user_id), NoId, req, 404, "User not found")
       ELSE IF user_forbidden(caller, is_admin, user_id)
       THEN abort_after(Call("get_user", user_id), user_id, req, 403,
                        "Unauthorized action")
       ELSE IF touches_credentials(is_admin, payload)
       THEN abort_after(Call("get_user", user_id), user_id, req, 400,
                        "You cannot modify email or password")
       ELSE IF email_in_use(is_admin, user_id, payload)
       THEN abort_after(Call("get_user_by_email", NoId),
                        get_user_by_email(payload.email), req, 400,
                        "Email already in use")
       ELSE update_user(user_id, payload) /\ http' = Responded(req, 200)

UserResource_delete(is_admin, user_id) ==
    LET req == "DELETE /users"
    IN IF ~is_admin
       THEN abort(req, 403, "Admin privileges required")
       ELSE delete_user(user_id) /\ http' = Deleted(req, "User not found")

(***************************************************************************)
(* app/api/v1/amenities.py                                                 *)
(***************************************************************************)
AmenityList_post(is_admin, payload) ==
    LET req == "POST /amenities"
    IN IF ~is_admin
       THEN abort(req, 403, "Admin privileges required")
       ELSE create_amenity(payload) /\ http' = Responded(req, 201)

AmenityResource_put(is_admin, amenity_id, payload) ==
    LET req == "PUT /amenities"
    IN IF ~is_admin
       THEN abort(req, 403, "Admin privileges required")
       ELSE /\ update_amenity(amenity_id, payload)
            /\ http' = IF last'.exc = "" /\ last'.ret = NoId
                       THEN Response(req, 404, "Amenity not found")
                       ELSE Responded(req, 200)

\* a delete handler without the admin check
AmenityResource_delete_open(is_admin, amenity_id) ==
    /\ delete_amenity(amenity_id)
    /\ http' = Deleted("DELETE /amenities", "Amenity not found")

AmenityResource_delete(is_admin, amenity_id) ==
    LET req == "DELETE /amenities"
    IN IF ~is_admin
       THEN abort(req, 403, "Admin privileges required")
       ELSE delete_amenity(amenity_id) /\ http' = Deleted(req, "Amenity not found")

(***************************************************************************)
(* Inputs                                                                  *)
(***************************************************************************)
John == Str("John", 4)
Jane == Str("Jane", 4)
Doe == Str("Doe", 3)
Empty == Str("", 0)
Password123 == Str("password123", 11)
Password456 == Str("password456", 11)

EmailJohn == Chars(<<"j", "@", "x", ".", "i", "o">>)
EmailJOHN == Chars(<<"J", "@", "x", ".", "i", "o">>)
EmailJane == Chars(<<"k", "@", "x", ".", "i", "o">>)
EmailBad == Chars(<<"j", "x", ".", "i", "o">>)

BeachHouse == Str("Beach House", 11)
Title100 == Str("a title of 100 characters", TitleMax)
Title101 == Str("a title of 101 characters", TitleMax + 1)
GreatPlace == Str("Great place!", 12)
WiFi == Str("WiFi", 4)
Pool == Str("Pool", 4)

\* ids a caller can name: those handed out so far and one that never was
IdsOf(table) == (1..nextId[table]) \cup {GhostId}

ValidPlace(owner, amenity_ids) ==
    [amenities |-> amenity_ids, latitude |-> Num(25), longitude |-> Num(-80),
     owner_id |-> owner, price |-> Num(150), title |-> BeachHouse]

Init ==
    /\ users = <<>>
    /\ places = <<>>
    /\ reviews = <<>>
    /\ amenities = <<>>
    /\ nextId = [amenities |-> 0, places |-> 0, reviews |-> 0, users |-> 0]
    /\ engine \in Engines
    /\ last = Outcome(Call("init", NoId), "", "", NoId, FALSE, {})
    /\ http = NoRequest
    /\ storage = EmptyStorage
    /\ answers = [durable |-> NoResult, memory |-> NoResult]
    /\ requests = <<>>

(***************************************************************************)
(* Spec: accounts, listings and reviews driven by any caller               *)
(***************************************************************************)
UserData ==
    [email : {EmailJohn, EmailJane}, first_name : {John}, last_name : {Doe},
     password : {Password123}]

ReviewData ==
    [place_id : IdsOf("places"), rating : {Num(5)}, text : {GreatPlace, Empty},
     user_id : IdsOf("users")]

CreateUser == \E d \in UserData : create_user(d) /\ UNCHANGED http

DeleteUser == \E id \in IdsOf("users") : delete_user(id) /\ UNCHANGED http

CreatePlace == \E owner \in IdsOf("users") : create_place(ValidPlace(owner, <<>>)) /\ UNCHANGED http

UpdatePlace ==
    \E id \in IdsOf("places") : \E owner \in IdsOf("users") :
        update_place(id, [owner_id |-> owner]) /\ UNCHANGED http

DeletePlace == \E id \in IdsOf("places") : delete_place(id) /\ UNCHANGED http

CreateReview == \E d \in ReviewData : create_review(d) /\ UNCHANGED http

\* the payload names another author: update_review takes only text and rating
UpdateReview ==
    \E id \in IdsOf("reviews") : \E u \in IdsOf("users") :
        update_review(id, [text |-> GreatPlace, user_id |-> u]) /\ UNCHANGED http

DeleteReview == \E id \in IdsOf("reviews") : delete_review(id) /\ UNCHANGED http

Next ==
    \/ CreateUser
    \/ DeleteUser
    \/ CreatePlace
    \/ UpdatePlace
    \/ DeletePlace
    \/ CreateReview
    \/ UpdateReview
    \/ DeleteReview

Spec == Init /\ [][Next]_vars

(***************************************************************************)
(* SpecReviews: the review operations and delete_place, on listings whose  *)
(* owner never changes                                                     *)
(***************************************************************************)
\* accounts register in a fixed order: which email an account holds plays no
\* part in the review operations
Emails == <<EmailJohn, EmailJane, EmailJOHN>>

CreateReviewer ==
    /\ nextId.users < Len(Emails)
    /\ create_user([email |-> Emails[nextId.users + 1], first_name |-> John,
                    last_name |-> Doe, password |-> Password123])
    /\ UNCHANGED http

NextReviews ==
    \/ CreateReviewer
    \/ CreatePlace
    \/ DeletePlace
    \/ CreateReview
    \/ UpdateReview
    \/ DeleteReview

SpecReviews == Init /\ [][NextReviews]_vars

(***************************************************************************)
(* SpecUsers: the account operations with any payload                      *)
(***************************************************************************)
AccountData ==
    [email : {EmailJohn, EmailJOHN, EmailBad}, first_name : {John, Empty},
     last_name : {Doe}, password : {Password123}]

AccountUpdate ==
    {[email |-> e] : e \in {EmailJohn, EmailJOHN, EmailJane}}
        \cup {[first_name |-> Jane], [password |-> Password456]}

CreateAccount == \E d \in AccountData : create_user(d) /\ UNCHANGED http

UpdateAccount ==
    \E id \in IdsOf("users") : \E d \in AccountUpdate : update_user(id, d) /\ UNCHANGED http

DeleteAccount == \E id \in IdsOf("users") : delete_user(id) /\ UNCHANGED http

NextUsers ==
    \/ CreateAccount
    \/ UpdateAccount
    \/ DeleteAccount

SpecUsers == Init /\ [][NextUsers]_vars

(***************************************************************************)
(* SpecListing: listing creation with any field values                     *)
(***************************************************************************)
\* payloads Place._validate accepts, the boundary values included
ValidListings(owner) ==
    [amenities : {<<>>},
     latitude : {None, Num(LatMin), Num(LatMax)},
     longitude : {Num(LonMin), Num(LonMax)},
     owner_id : {owner},
     price : {Num(0)},
     title : {BeachHouse, Title100}]

\* a valid payload with one field, or every field, moved out of its range
InvalidListings(owner) ==
    LET base == ValidPlace(owner, <<>>)
    IN {[base EXCEPT !.latitude = x] : x \in {Num(LatMin - 1), Num(LatMax + 1)}}
         \cup {[base EXCEPT !.longitude = x] : x \in {Num(LonMin - 1), Num(LonMax + 1)}}
         \cup {[base EXCEPT !.price = Num(-1)]}
         \cup {[base EXCEPT !.title = x] : x \in {Empty, Title101}}
         \cup {[base EXCEPT !.latitude = Num(LatMax + 1), !.longitude = Num(LonMin - 1),
                            !.price = Num(-1), !.title = Title101]}

ListingData ==
    UNION {ValidListings(owner) \cup InvalidListings(owner) : owner \in IdsOf("users")}

CreateOwner ==
    /\ create_user([email |-> EmailJohn, first_name |-> John, last_name |-> Doe,
                    password |-> Password123])
    /\ UNCHANGED http

\* the first account lists one place
HostListing ==
    /\ nextId.places = 0
    /\ create_place(ValidPlace(1, <<>>))
    /\ UNCHANGED http

CreateListing == \E d \in ListingData : create_place(d) /\ UNCHANGED http

DeleteListing == \E id \in IdsOf("places") : delete_place(id) /\ UNCHANGED http

NextListing ==
    \/ CreateOwner
    \/ CreateListing
    \/ DeleteListing

SpecListing == Init /\ [][NextListing]_vars

(***************************************************************************)
(* SpecListingUpdates: field updates of a listing                          *)
(***************************************************************************)
\* payloads of update_place: one field each, inside and outside its range
ListingUpdates ==
    {[price |-> Num(10)], [price |-> Num(-1)], [title |-> Empty],
     [latitude |-> Num(LatMax + 1)], [longitude |-> Num(LonMin - 1)]}

UpdateListing ==
    \E id \in IdsOf("places") : \E d \in ListingUpdates :
        update_place(id, d) /\ UNCHANGED http

NextListingUpdates ==
    \/ CreateOwner
    \/ HostListing
    \/ UpdateListing

SpecListingUpdates == Init /\ [][NextListingUpdates]_vars

(***************************************************************************)
(* SpecRatings: reviews created and updated with every rating from 0 to 6  *)
(***************************************************************************)
Ratings == (RatingMin - 1)..(RatingMax + 1)

\* payloads of create_review: every rating with a text, and an empty text
RatedReviews ==
    [place_id : IdsOf("places"), rating : {Num(r) : r \in Ratings},
     text : {GreatPlace}, user_id : IdsOf("users")]
        \cup [place_id : IdsOf("places"), rating : {Num(RatingMax)},
              text : {Empty}, user_id : IdsOf("users")]

\* payloads of update_review: every rating, and an empty text
ReviewUpdates == {[rating |-> Num(r)] : r \in Ratings} \cup {[text |-> Empty]}

RateListing == \E d \in RatedReviews : create_review(d) /\ UNCHANGED http

UpdateRating ==
    \E id \in IdsOf("reviews") : \E d \in ReviewUpdates :
        update_review(id, d) /\ UNCHANGED http

NextRatings ==
    \/ CreateReviewer
    \/ HostListing
    \/ RateListing
    \/ UpdateRating

SpecRatings == Init /\ [][NextRatings]_vars

(***************************************************************************)
(* SpecAmenities: the listing-amenity association                          *)
(***************************************************************************)
\* amenity id lists of a payload: up to two ids, repeats included
AmenityLists ==
    {<<>>} \cup {<<a>> : a \in IdsOf("amenities")}
           \cup {<<a, b>> : a \in IdsOf("amenities"), b \in IdsOf("amenities")}

CreateAmenity == \E name \in {WiFi, Pool} : create_amenity([name |-> name]) /\ UNCHANGED http

UpdateAmenity ==
    \E id \in IdsOf("amenities") : \E name \in {WiFi, Pool} :
        update_amenity(id, [name |-> name]) /\ UNCHANGED http

DeleteAmenity == \E id \in IdsOf("amenities") : delete_amenity(id) /\ UNCHANGED http

CreateWithAmenities ==
    \E owner \in IdsOf("users") : \E ams \in AmenityLists :
        create_place(ValidPlace(owner, ams)) /\ UNCHANGED http

UpdateAmenities ==
    \E id \in IdsOf("places") : \E ams \in AmenityLists :
        update_place(id, [amenities |-> ams]) /\ UNCHANGED http

AddAmenity ==
    \E p \in IdsOf("places") : \E a \in IdsOf("amenities") : place_add_amenity(p, a) /\ UNCHANGED http

AddAmenityTwice ==
    \E p \in IdsOf("places") : \E a \in IdsOf("amenities") :
        place_add_amenity_twice(p, a) /\ UNCHANGED http

RemoveAmenity ==
    \E p \in IdsOf("places") : \E a \in IdsOf("amenities") : place_remove_amenity(p, a) /\ UNCHANGED http

NextAmenities ==
    \/ CreateOwner
    \/ CreateAmenity
    \/ UpdateAmenity
    \/ DeleteAmenity
    \/ CreateWithAmenities
    \/ UpdateAmenities
    \/ AddAmenity
    \/ AddAmenityTwice
    \/ RemoveAmenity
    \/ DeleteListing

SpecAmenities == Init /\ [][NextAmenities]_vars

(***************************************************************************)
(* SpecIdentity: updates whose payload names id or created_at              *)
(***************************************************************************)
\* payloads naming another id, or an earlier creation time
IdentityPayloads == {[id |-> GhostId], [created_at |-> Stamp(0)]}

\* two accounts register: a host and a guest
CreateHostAndGuest == nextId.users < 2 /\ CreateReviewer

CreateWiFi == create_amenity([name |-> WiFi]) /\ UNCHANGED http

\* the second account reviews the first account's listing, once
GuestReview ==
    /\ nextId.reviews = 0
    /\ create_review([place_id |-> 1, rating |-> Num(RatingMax), text |-> GreatPlace,
                      user_id |-> 2])
    /\ UNCHANGED http

IdentifyUser ==
    \E id \in IdsOf("users") : \E d \in IdentityPayloads :
        update_user(id, d) /\ UNCHANGED http

IdentifyPlace ==
    \E id \in IdsOf("places") : \E d \in IdentityPayloads :
        update_place(id, d) /\ UNCHANGED http

IdentifyReview ==
    \E id \in IdsOf("reviews") : \E d \in IdentityPayloads :
        update_review(id, d) /\ UNCHANGED http

IdentifyAmenity ==
    \E id \in IdsOf("amenities") : \E d \in IdentityPayloads :
        update_amenity(id, d) /\ UNCHANGED http

NextIdentity ==
    \/ CreateHostAndGuest
    \/ HostListing
    \/ GuestReview
    \/ CreateWiFi
    \/ IdentifyUser
    \/ IdentifyPlace
    \/ IdentifyReview
    \/ IdentifyAmenity

SpecIdentity == Init /\ [][NextIdentity]_vars

(***************************************************************************)
(* SpecDeletes: the four delete methods on a host, a guest, a listing, a   *)
(* review and an amenity                                                   *)
(***************************************************************************)
NextDeletes ==
    \/ CreateHostAndGuest
    \/ HostListing
    \/ GuestReview
    \/ CreateWiFi
    \/ DeleteUser
    \/ DeletePlace
    \/ DeleteReview
    \/ DeleteAmenity

SpecDeletes == Init /\ [][NextDeletes]_vars

(***************************************************************************)
(* SpecFields: the four update methods with payloads that supply some of   *)
(* the fields, on a host, a guest, a listing, a review and an amenity      *)
(***************************************************************************)
UserFields == {[first_name |-> Jane], [email |-> EmailJane, last_name |-> Empty]}
PlaceFields == {[title |-> Title100], [amenities |-> <<1>>, price |-> Num(1)]}
ReviewFields ==
    {[text |-> Empty], [place_id |-> GhostId, rating |-> Num(1), user_id |-> 1]}
AmenityFields == {[name |-> Pool]}

UpdateUserFields ==
    \E id \in IdsOf("users") : \E d \in UserFields :
        update_user(id, d) /\ UNCHANGED http

UpdatePlaceFields ==
    \E id \in IdsOf("places") : \E d \in PlaceFields :
        update_place(id, d) /\ UNCHANGED http

UpdateReviewFields ==
    \E id \in IdsOf("reviews") : \E d \in ReviewFields :
        update_review(id, d) /\ UNCHANGED http

UpdateAmenityFields ==
    \E id \in IdsOf("amenities") : \E d \in AmenityFields :
        update_amenity(id, d) /\ UNCHANGED http

NextFields ==
    \/ CreateHostAndGuest
    \/ HostListing
    \/ GuestReview
    \/ CreateWiFi
    \/ UpdateUserFields
    \/ UpdatePlaceFields
    \/ UpdateReviewFields
    \/ UpdateAmenityFields

SpecFields == Init /\ [][NextFields]_vars

(***************************************************************************)
(* SpecErrors: creations and updates with payloads the facade refuses      *)
(* (invalid fields, a taken email, a missing place or user, the author's   *)
(* own place) or the database refuses (a second review, a second name)     *)
(***************************************************************************)
\* a registration with the first account's email
RegisterAgain ==
    /\ create_user([email |-> EmailJohn, first_name |-> John, last_name |-> Doe,
                    password |-> Password123])
    /\ UNCHANGED http

\* an account asks for the first account's email
TakeEmail ==
    \E id \in IdsOf("users") :
        update_user(id, [email |-> EmailJohn]) /\ UNCHANGED http

\* an amenity with a name, with the same name again, or without one
NameAmenity ==
    \E name \in {WiFi, Empty} : create_amenity([name |-> name]) /\ UNCHANGED http

NextErrors ==
    \/ RegisterAgain
    \/ CreateReviewer
    \/ TakeEmail
    \/ CreatePlace
    \/ CreateReview
    \/ UpdateReview
    \/ NameAmenity

SpecErrors == Init /\ [][NextErrors]_vars

(***************************************************************************)
(* SpecRepository: an InMemoryRepository and a SQLAlchemyRepository(User)  *)
(* given the same calls, with the same objects, one call at a time         *)
(***************************************************************************)
\* both repositories end the call; the durable one is the users table
BothAnswer(m, d, nid) ==
    /\ nid.users <= MaxUsers
    /\ storage' = m.st
    /\ users' = d.st
    /\ answers' = [durable |-> d.res, memory |-> m.res]
    /\ nextId' = nid
    /\ UNCHANGED <<places, reviews, amenities, engine, last, http, requests>>

\* repo.add(User(...)) with a valid user; the second email repeats the first
Repository_add ==
    \E email \in {EmailJohn, EmailJane} :
        LET obj_id == nextId.users + 1
            obj == User_init(John, Doe, email, Password123, FALSE)
        IN BothAnswer(InMemoryRepository_add(storage, obj_id, obj),
                      SQLAlchemyRepository_add(users, obj_id, obj),
                      [nextId EXCEPT !.users = obj_id])

Repository_get ==
    \E obj_id \in IdsOf("users") :
        BothAnswer(InMemoryRepository_get(storage, obj_id),
                   SQLAlchemyRepository_get(users, obj_id), nextId)

Repository_get_all ==
    BothAnswer(InMemoryRepository_get_all(storage),
               SQLAlchemyRepository_get_all(users), nextId)

Repository_update ==
    \E obj_id \in IdsOf("users") :
        \E data \in {[first_name |-> Jane], [email |-> EmailJane]} :
            BothAnswer(InMemoryRepository_update(storage, obj_id, data),
                       SQLAlchemyRepository_update(users, obj_id, data), nextId)

Repository_delete ==
    \E obj_id \in IdsOf("users") :
        BothAnswer(InMemoryRepository_delete(storage, obj_id),
                   SQLAlchemyRepository_delete(users, obj_id), nextId)

Repository_get_by_attribute ==
    \E attr_name \in {"email", "nickname"} :
        BothAnswer(InMemoryRepository_get_by_attribute(storage, attr_name, EmailJohn),
                   SQLAlchemyRepository_get_by_attribute(users, attr_name, EmailJohn),
                   nextId)

NextRepository ==
    \/ Repository_add
    \/ Repository_get
    \/ Repository_get_all
    \/ Repository_update
    \/ Repository_delete
    \/ Repository_get_by_attribute

SpecRepository == Init /\ [][NextRepository]_vars

(***************************************************************************)
(* SpecUnprivileged: two accounts, neither an admin, and the account       *)
(* endpoints called with tokens that carry no is_admin claim               *)
(***************************************************************************)
UnprivilegedBodies ==
    {[first_name |-> Jane], [is_admin |-> TRUE], [is_admin |-> TRUE, password |-> Password456]}

PutUserUnprivileged ==
    \E caller \in DOMAIN users : \E id \in IdsOf("users") :
        \E body \in UnprivilegedBodies :
            UserResource_put(caller, FALSE, id, body)

PostUserUnprivileged ==
    UserList_post(FALSE, [email |-> EmailJOHN, first_name |-> John, is_admin |-> TRUE,
                          last_name |-> Doe, password |-> Password123])

DeleteUserUnprivileged ==
    \E id \in IdsOf("users") : UserResource_delete(FALSE, id)

NextUnprivileged ==
    \/ CreateHostAndGuest
    \/ PutUserUnprivileged
    \/ PostUserUnprivileged
    \/ DeleteUserUnprivileged

SpecUnprivileged == Init /\ [][NextUnprivileged]_vars

(***************************************************************************)
(* Requests that overlap.  Each request runs in its own session; a lookup  *)
(* reads what is committed at that moment, and the INSERT with its commit  *)
(* is one step.  pc is the facade or repository call the request makes     *)
(* next; status is the response code once the request is done.             *)
(***************************************************************************)
Clients == {1, 2}

Request(caller, payload, pc, status) ==
    [caller |-> caller, payload |-> payload, pc |-> pc, status |-> status]

\* a client with no request in progress sends one
Arrives(r, caller, payload, pc) ==
    /\ ~(r \in DOMAIN requests /\ requests[r].pc # "done")
    /\ requests' = Put(requests, r, Request(caller, payload, pc, 0))
    /\ UNCHANGED <<db, engine, last, http, storage, answers>>

At(r, pc) == r \in DOMAIN requests /\ requests[r].pc = pc

\* the request goes on to its next call
Goto(r, pc) ==
    /\ requests' = [requests EXCEPT ![r].pc = pc]
    /\ UNCHANGED <<db, engine, last, http, storage, answers>>

\* api.abort(status, ...), or an exception that leaves the handler
Responds(r, status) ==
    /\ requests' = [requests EXCEPT ![r].pc = "done", ![r].status = status]
    /\ UNCHANGED <<db, engine, last, http, storage, answers>>

\* repo.add(obj): session.add, commit, and the 201 of the handler; a commit
\* the database rejects raises IntegrityError, which no handler catches
Adds(r, us, rs, nid) ==
    IF Constraints(us, places, rs, amenities)
    THEN /\ WithinBounds(nid)
         /\ users' = us
         /\ reviews' = rs
         /\ nextId' = nid
         /\ requests' = [requests EXCEPT ![r].pc = "done", ![r].status = 201]
         /\ UNCHANGED <<places, amenities, engine, last, http, storage, answers>>
    ELSE Responds(r, 500)

\* UserList.post, of an admin: `if facade.get_user_by_email(email): abort(400)`
UserList_post_lookup(r) ==
    /\ At(r, "get_user_by_email")
    /\ IF get_user_by_email(Get(requests[r].payload, "email", None)) # NoId
       THEN Responds(r, 400)
       ELSE Goto(r, "create_user")

\* the new User of a creation payload
NewUser(user_data) ==
    User_init(Get(user_data, "first_name", None), Get(user_data, "last_name", None),
              Get(user_data, "email", None), Get(user_data, "password", Str("", 0)),
              Get(user_data, "is_admin", FALSE))

\* facade.create_user up to user_repo.add: the lookup by email, then User(...)
create_user_lookup(r) ==
    /\ At(r, "create_user")
    /\ IF get_user_by_email(Get(requests[r].payload, "email", None)) # NoId
          \/ User_validate(NewUser(requests[r].payload)) # ""
       THEN Responds(r, 400)
       ELSE Goto(r, "user_repo.add")

\* self.user_repo.add(user)
create_user_add(r) ==
    /\ At(r, "user_repo.add")
    /\ Adds(r, Put(users, nextId.users + 1, NewUser(requests[r].payload)), reviews,
            [nextId EXCEPT !.users = @ + 1])

\* ReviewList.post: facade.get_place, 404 if absent, 400 for one's own place
ReviewList_post_get_place(r) ==
    /\ At(r, "get_place")
    /\ LET place_id == Get(requests[r].payload, "place_id", NoId)
       IN IF repo_get(places, place_id) = NoId
          THEN Responds(r, 404)
          ELSE IF places[place_id].owner_id = requests[r].caller
          THEN Responds(r, 400)
          ELSE Goto(r, "get_reviews_by_place")

\* ReviewList.post: 400 if the caller is among the authors of the reviews of
\* the place
ReviewList_post_lookup(r) ==
    /\ At(r, "get_reviews_by_place")
    /\ IF already_reviewed(requests[r].caller, Get(requests[r].payload, "place_id", NoId))
       THEN Responds(r, 400)
       ELSE Goto(r, "create_review")

\* the new Review of the request
NewReview(r) ==
    Review_init(Get(requests[r].payload, "text", None),
                Get(requests[r].payload, "rating", None),
                Get(requests[r].payload, "place_id", NoId), requests[r].caller)

\* facade.create_review up to review_repo.add: place and user are looked up
\* (404 when one is missing), the owner is refused, Review(...) validates
create_review_lookup(r) ==
    /\ At(r, "create_review")
    /\ LET place_id == Get(requests[r].payload, "place_id", NoId)
       IN IF repo_get(places, place_id) = NoId
             \/ repo_get(users, requests[r].caller) = NoId
          THEN Responds(r, 404)
          ELSE IF is_own_place(place_id, requests[r].caller)
                  \/ Review_validate(NewReview(r)) # ""
          THEN Responds(r, 400)
          ELSE Goto(r, "review_repo.add")

\* self.review_repo.add(review)
create_review_add(r) ==
    /\ At(r, "review_repo.add")
    /\ Adds(r, users, Put(reviews, nextId.reviews + 1, NewReview(r)),
            [nextId EXCEPT !.reviews = @ + 1])

(***************************************************************************)
(* SpecRegistrations: two clients register accounts through POST /users,   *)
(* with either of two emails, their requests overlapping in every way      *)
(***************************************************************************)
Registers ==
    \E r \in Clients : \E email \in {EmailJohn, EmailJane} :
        Arrives(r, NoId,
                [email |-> email, first_name |-> John, last_name |-> Doe,
                 password |-> Password123],
                "get_user_by_email")

HandlerLooksUp == \E r \in Clients : UserList_post_lookup(r)

FacadeLooksUp == \E r \in Clients : create_user_lookup(r)

InsertsUser == \E r \in Clients : create_user_add(r)

NextRegistrations ==
    \/ Registers
    \/ HandlerLooksUp
    \/ FacadeLooksUp
    \/ InsertsUser

SpecRegistrations == Init /\ [][NextRegistrations]_vars

(***************************************************************************)
(* SpecReviewing: a host, a guest and a listing; two clients post reviews  *)
(* of the listing as the host or as the guest, their requests overlapping  *)
(***************************************************************************)
Reviews ==
    \E r \in Clients : \E caller \in {1, 2} : \E place_id \in {1, GhostId} :
        Arrives(r, caller,
                [place_id |-> place_id, rating |-> Num(RatingMax), text |-> GreatPlace],
                "get_place")

GetsPlace == \E r \in Clients : ReviewList_post_get_place(r)

LooksUpReviews == \E r \in Clients : ReviewList_post_lookup(r)

FacadeChecks == \E r \in Clients : create_review_lookup(r)

InsertsReview == \E r \in Clients : create_review_add(r)

NextReviewing ==
    \/ CreateHostAndGuest
    \/ HostListing
    \/ Reviews
    \/ GetsPlace
    \/ LooksUpReviews
    \/ FacadeChecks
    \/ InsertsReview

SpecReviewing == Init /\ [][NextReviewing]_vars

(***************************************************************************)
(* SpecApi: the handlers of listings and reviews and the account update,   *)
(* requested by any authenticated caller                                   *)
(***************************************************************************)
Cabin == Str("Cabin", 5)

\* the body of POST /places: with no owner_id, or with the id of any account
PlaceBodies ==
    {Without(ValidPlace(NoId, <<>>), "owner_id")}
        \cup {ValidPlace(owner, <<>>) : owner \in IdsOf("users")}

PostPlace ==
    \E caller \in IdsOf("users") : \E body \in PlaceBodies :
        PlaceList_post(caller, body)

PutPlace ==
    \E caller \in IdsOf("users") : \E is_admin \in BOOLEAN :
        \E id \in IdsOf("places") :
            PlaceResource_put(caller, is_admin, id, [title |-> Cabin])

DeletePlaceRequest ==
    \E caller \in IdsOf("users") : \E is_admin \in BOOLEAN :
        \E id \in IdsOf("places") : PlaceResource_delete(caller, is_admin, id)

PostReview ==
    \E caller \in IdsOf("users") : \E place \in IdsOf("places") :
        ReviewList_post(caller, [place_id |-> place, rating |-> Num(5),
                                 text |-> GreatPlace])

PutReview ==
    \E caller \in IdsOf("users") : \E is_admin \in BOOLEAN :
        \E id \in IdsOf("reviews") :
            ReviewResource_put(caller, is_admin, id, [rating |-> Num(3)])

DeleteReviewRequest ==
    \E caller \in IdsOf("users") : \E is_admin \in BOOLEAN :
        \E id \in IdsOf("reviews") : ReviewResource_delete(caller, is_admin, id)

\* the body repeats the name every account registered with
PutUserName ==
    \E caller \in IdsOf("users") : \E is_admin \in BOOLEAN :
        \E id \in IdsOf("users") :
            UserResource_put(caller, is_admin, id, [first_name |-> John])

NextApi ==
    \/ CreateReviewer
    \/ HostListing
    \/ PutPlace
    \/ DeletePlaceRequest
    \/ PostReview
    \/ PutReview
    \/ DeleteReviewRequest
    \/ PutUserName

SpecApi == Init /\ [][NextApi]_vars

NextApiPlaces ==
    \/ CreateReviewer
    \/ PostPlace
    \/ PutPlace
    \/ DeletePlaceRequest

SpecApiPlaces == Init /\ [][NextApiPlaces]_vars

NextApiReviews ==
    \/ CreateReviewer
    \/ HostListing
    \/ PostReview
    \/ PutReview
    \/ DeleteReviewRequest

SpecApiReviews == Init /\ [][NextApiReviews]_vars

(***************************************************************************)
(* SpecApiUsers: the account update requested by any authenticated caller  *)
(***************************************************************************)
\* bodies of PUT /users: a name, an email, a password, an email with a name
UserBodies ==
    {[first_name |-> Jane], [email |-> EmailJane], [password |-> Password456],
     [email |-> EmailJane, first_name |-> Jane]}

\* no account is deleted here: every token names a persisted account
PutUser ==
    \E caller \in DOMAIN users : \E is_admin \in BOOLEAN :
        \E id \in IdsOf("users") : \E body \in UserBodies :
            UserResource_put(caller, is_admin, id, body)

NextApiUsers ==
    \/ CreateReviewer
    \/ PutUser

SpecApiUsers == Init /\ [][NextApiUsers]_vars

(***************************************************************************)
(* SpecAdmin: the handlers reserved to admins, requested with and without  *)
(* the is_admin claim                                                      *)
(***************************************************************************)
\* the body of POST /users: one registration, sent again and again
UserBodies_post ==
    {[email |-> EmailJohn, first_name |-> John, last_name |-> Doe,
      password |-> Password123]}

PostUser ==
    \E is_admin \in BOOLEAN : \E d \in UserBodies_post : UserList_post(is_admin, d)

DeleteUserRequest ==
    \E is_admin \in BOOLEAN : \E id \in IdsOf("users") : UserResource_delete(is_admin, id)

AmenityBodies == {[name |-> WiFi], [name |-> Pool]}

PostAmenity ==
    \E is_admin \in BOOLEAN : \E d \in AmenityBodies : AmenityList_post(is_admin, d)

PutAmenity ==
    \E is_admin \in BOOLEAN : \E id \in IdsOf("amenities") : \E d \in AmenityBodies :
        AmenityResource_put(is_admin, id, d)

DeleteAmenityRequest ==
    \E is_admin \in BOOLEAN : \E id \in IdsOf("amenities") :
        AmenityResource_delete(is_admin, id)

NextAdmin ==
    \/ PostUser
    \/ DeleteUserRequest
    \/ PostAmenity
    \/ PutAmenity
    \/ DeleteAmenityRequest

SpecAdmin == Init /\ [][NextAdmin]_vars

(***************************************************************************)
(* Accounts: uniqueness of the email                                       *)
(***************************************************************************)
UniqueEmails ==
    \A a, b \in DOMAIN users : a # b => users[a].email # users[b].email

\* update_user(id, d) names the email of a different persisted account
EmailOfAnother(id, d) ==
    /\ id \in DOMAIN users
    /\ Has(d, "email")
    /\ \E o \in DOMAIN users : o # id /\ users[o].email = d.email

\* the duplicate error a facade call reports
DuplicateEmailReported(o) ==
    o.exc = "ValueError" /\ o.msg = "Email already registered"

\* C1: in every state reached by create_user, update_user and delete_user no two
\* persisted accounts hold the same email, compared case-sensitively; and an
\* update_user that names the email of a different account reports the
\* duplicate error and leaves every table as it was.
C1_UniqueEmail ==
    /\ []UniqueEmails
    /\ [][\A id \in IdsOf("users") : \A d \in AccountUpdate :
            (EmailOfAnother(id, d) /\ update_user(id, d))
                => (DuplicateEmailReported(last') /\ UNCHANGED db)]_vars

\* two accounts whose emails differ only by case are persisted, and an update
\* of one to the other's email has just been refused
C1_Witness ==
    /\ last.op = "update_user"
    /\ DuplicateEmailReported(last)
    /\ \E a, b \in DOMAIN users :
         users[a].email = EmailJohn /\ users[b].email = EmailJOHN

\* C2: a create_user whose email is held by a persisted account reports the
\* duplicate error, leaves the users table (so the first account's fields) as
\* it was, and exactly one account with that email persists.
C2_DuplicateCreate ==
    [][\A d \in AccountData :
        ((\E u \in DOMAIN users : users[u].email = d.email) /\ create_user(d))
            => /\ DuplicateEmailReported(last')
               /\ users' = users
               /\ Cardinality({u \in DOMAIN users' : users'[u].email = d.email}) = 1]_vars

\* a second create_user with a held email has just been refused
C2_Witness ==
    /\ last.op = "create_user"
    /\ DuplicateEmailReported(last)
    /\ Cardinality(DOMAIN users) = 1

(***************************************************************************)
(* Listings: validation at creation                                        *)
(***************************************************************************)
\* a create_place payload with one of the field values the listing rules forbid
OutOfRange(d) ==
    \/ ~IsNone(d.latitude) /\ (d.latitude.v > 90 \/ d.latitude.v < -90)
    \/ ~IsNone(d.longitude) /\ (d.longitude.v > 180 \/ d.longitude.v < -180)
    \/ d.price.v < 0
    \/ d.title.len = 0
    \/ d.title.len > 100

\* the validation errors of a listing
PlaceValidationFailed(o) ==
    /\ o.exc = "ValueError"
    /\ o.msg \in {"Title is required and must be <= 100 characters",
                  "Price must be a positive value",
                  "Latitude must be between -90 and 90",
                  "Longitude must be between -180 and 180"}

\* C3: create_place with a latitude above 90 or below -90, a longitude above
\* 180 or below -180, a price below 0, an empty title or a title of more than
\* 100 characters persists no listing: the places table is the same before and
\* after the call; and, the owner named being a persisted account, the call
\* reports a validation error.
C3_InvalidListing ==
    [][\A d \in ListingData :
        (OutOfRange(d) /\ create_place(d))
            => /\ UNCHANGED db
               /\ last'.exc # ""
               /\ d.owner_id \in DOMAIN users => PlaceValidationFailed(last')]_vars

\* a create_place has just been refused for its latitude while a listing created
\* with boundary values is persisted
C3_Witness ==
    /\ last.op = "create_place"
    /\ last.msg = "Latitude must be between -90 and 90"
    /\ \E p \in DOMAIN places :
         places[p].latitude = Num(90) /\ places[p].title.len = 100

(***************************************************************************)
(* Reviews                                                                 *)
(***************************************************************************)
\* C4: create_review whose user_id is the owner_id of the listing it names
\* persists no review, and, that account being persisted, reports "Cannot
\* review your own place".
C4_OwnPlace ==
    [][\A d \in ReviewData :
        (/\ d.place_id \in DOMAIN places
         /\ places[d.place_id].owner_id = d.user_id
         /\ create_review(d))
            => /\ UNCHANGED db
               /\ last'.exc = "ValueError"
               /\ d.user_id \in DOMAIN users
                    => last'.msg = "Cannot review your own place"]_vars

\* the owner of a listing has just been refused a review of it
C4_Witness ==
    /\ last.op = "create_review"
    /\ last.msg = "Cannot review your own place"
    /\ reviews = <<>>

\* create_review(d) names a persisted listing and a persisted account that
\* already has a review of that listing
AlreadyReviewed(d) ==
    /\ d.place_id \in DOMAIN places
    /\ d.user_id \in DOMAIN users
    /\ \E r \in DOMAIN reviews :
         reviews[r].user_id = d.user_id /\ reviews[r].place_id = d.place_id

\* the duplicate error of the facade: the ValueError that a registered email
\* raises, with a message of its own
DuplicateReported(o) ==
    /\ o.exc = "ValueError"
    /\ o.msg \notin {"Place not found", "User not found", "Cannot review your own place",
                     "Review text is required", "Rating must be between 1 and 5",
                     "Place is required", "User is required"}

\* C5: a second create_review for the same (user, listing) pair, by an account
\* that does not own the listing and with a text and rating valid in
\* themselves, reports the duplicate error as a ValueError, like a duplicate
\* email, and leaves the first review unchanged.
C5_DuplicateReview ==
    [][\A d \in ReviewData :
        (/\ AlreadyReviewed(d)
         /\ Truthy(d.text)
         /\ places[d.place_id].owner_id # d.user_id
         /\ create_review(d))
            => (DuplicateReported(last') /\ reviews' = reviews)]_vars

NoDuplicateReview ==
    \A a, b \in DOMAIN reviews :
        a # b => ~(/\ reviews[a].user_id = reviews[b].user_id
                   /\ reviews[a].place_id = reviews[b].place_id)

\* C6: in every state reached by create_review, update_review, delete_review
\* and delete_place (and the other facade calls) there is at most one persisted
\* review for each (user_id, place_id) pair.
C6_OneReviewPerPair == NoDuplicateReview

\* a second review of the same pair has just been refused by the database
\* while another account's review of the listing persists beside the first
C6_Witness ==
    /\ last.op = "create_review"
    /\ last.exc = "IntegrityError"
    /\ Cardinality(DOMAIN reviews) = 2

\* C7: in every state reached by the facade operations, update_place with any
\* payload included, no persisted review has the user_id that is the owner_id
\* of the listing it references.
C7_NoSelfReview ==
    \A r \in DOMAIN reviews :
        reviews[r].place_id \in DOMAIN places
            => reviews[r].user_id # places[reviews[r].place_id].owner_id

\* C8: create_review reports the error of the first failing check among
\* (1) the listing exists, (2) the account exists, (3) the account is not the
\* listing's owner, (4) the account has no review of the listing yet (here
\* with a text and rating valid in themselves).
C8_CheckOrder ==
    [][\A d \in ReviewData :
        create_review(d) =>
            IF d.place_id \notin DOMAIN places
            THEN last'.exc = "ValueError" /\ last'.msg = "Place not found"
            ELSE IF d.user_id \notin DOMAIN users
            THEN last'.exc = "ValueError" /\ last'.msg = "User not found"
            ELSE IF places[d.place_id].owner_id = d.user_id
            THEN last'.exc = "ValueError" /\ last'.msg = "Cannot review your own place"
            ELSE (AlreadyReviewed(d) /\ Truthy(d.text)) => DuplicateReported(last')]_vars

\* C9: after delete_place(L) has returned true, get_reviews_by_place(L) is
\* empty, get_all_reviews holds no review whose place_id is L, and get_review
\* finds none of the reviews that referenced L.
C9_DeleteCascades ==
    (last.op = "delete_place" /\ last.ok)
        => /\ get_reviews_by_place(last.id) = {}
           /\ \A r \in get_all_reviews : reviews[r].place_id # last.id
           /\ \A r \in 1..nextId.reviews :
                get_review(r) # NoId => reviews[get_review(r)].place_id # last.id
           /\ \A r \in last.cascade : get_review(r) = NoId

\* a listing with two reviews has just been deleted
C9_Witness ==
    /\ last.op = "delete_place"
    /\ last.ok
    /\ Cardinality(last.cascade) = 2

(***************************************************************************)
(* Listing-amenity association                                             *)
(***************************************************************************)
\* how many times x occurs in seq
Count(x, seq) == Cardinality({i \in 1..Len(seq) : seq[i] = x})

\* on the association list of every persisted listing: adding an amenity twice
\* gives the list that adding it once gives, with one occurrence of it, and
\* removing an amenity that is not in the list gives the list back
MutatorsIdempotent ==
    \A p \in DOMAIN places : \A a \in DOMAIN amenities :
        LET assoc == places[p].amenities
            once == add_amenity(assoc, a)
            twice == add_amenity(once, a)
        IN /\ twice = once
           /\ Count(a, twice) = 1
           /\ ~InSeq(a, assoc) => remove_amenity(assoc, a) = assoc

\* C10: add_amenity called twice with the same amenity leaves exactly one
\* association of it, the state that one call leaves; add_amenity of an amenity
\* already associated changes nothing; remove_amenity of an amenity that is not
\* associated leaves the listing's associations unchanged.
C10_Idempotent ==
    /\ []MutatorsIdempotent
    /\ [][\A p \in DOMAIN places : \A a \in DOMAIN amenities :
            /\ place_add_amenity_twice(p, a)
                 => /\ last'.exc = ""
                    /\ Count(a, places'[p].amenities) = 1
                    /\ places'[p].amenities = add_amenity(places[p].amenities, a)
            /\ (InSeq(a, places[p].amenities) /\ place_add_amenity(p, a))
                 => (last'.exc = "" /\ places' = places)
            /\ (~InSeq(a, places[p].amenities) /\ place_remove_amenity(p, a))
                 => (last'.exc = "" /\ places' = places)]_vars

\* an amenity has just been added twice to a listing, which holds it once
C10_Witness ==
    /\ last.op = "add_amenity_twice"
    /\ last.exc = ""
    /\ \E a \in DOMAIN amenities : Count(a, places[last.id].amenities) = 1

(***************************************************************************)
(* Authorization of the handlers                                           *)
(***************************************************************************)
\* C11: PUT and DELETE of a persisted listing go through exactly when the
\* caller is an admin or the listing's owner; any other caller gets 403 and
\* the listing, with everything else stored, is unchanged.
C11_ListingOwnerOrAdmin ==
    [][\A caller \in IdsOf("users") : \A is_admin \in BOOLEAN :
        \A id \in DOMAIN places :
            LET allowed == is_admin \/ places[id].owner_id = caller
            IN /\ PlaceResource_put(caller, is_admin, id, [title |-> Cabin])
                    => IF allowed
                       THEN http'.status = 200 /\ places'[id].title = Cabin
                       ELSE http'.status = 403 /\ UNCHANGED db
               /\ PlaceResource_delete(caller, is_admin, id)
                    => IF allowed
                       THEN http'.status = 204 /\ id \notin DOMAIN places'
                       ELSE http'.status = 403 /\ UNCHANGED db]_vars

\* an account that is not the owner has just been refused the update of a
\* listing, which keeps its title
C11_Witness ==
    /\ http = Response("PUT /places", 403, "Unauthorized action")
    /\ last.ret \in DOMAIN places
    /\ places[last.ret].title = BeachHouse
    /\ Cardinality(DOMAIN users) >= 2

\* C12: PUT and DELETE of a persisted review go through exactly when the
\* caller is an admin or the review's author; any other caller, the owner of
\* the reviewed listing included, gets 403 and the review, with everything
\* else stored, is unchanged.
C12_ReviewAuthorOrAdmin ==
    [][\A caller \in IdsOf("users") : \A is_admin \in BOOLEAN :
        \A id \in DOMAIN reviews :
            LET allowed == is_admin \/ reviews[id].user_id = caller
            IN /\ ReviewResource_put(caller, is_admin, id, [rating |-> Num(3)])
                    => IF allowed
                       THEN http'.status = 200 /\ reviews'[id].rating = Num(3)
                       ELSE http'.status = 403 /\ UNCHANGED db
               /\ ReviewResource_delete(caller, is_admin, id)
                    => IF allowed
                       THEN http'.status = 204 /\ id \notin DOMAIN reviews'
                       ELSE http'.status = 403 /\ UNCHANGED db]_vars

\* a caller has just been refused the deletion of a review, which persists
\* beside another account's review of the same listing
C12_Witness ==
    /\ http = Response("DELETE /reviews", 403, "Unauthorized action")
    /\ last.ret \in DOMAIN reviews
    /\ Cardinality(DOMAIN reviews) = 2

\* C13: PUT of a persisted account is refused with 403 exactly when the caller
\* is neither an admin nor that account, and then nothing stored changes; a
\* non-admin whose body holds an email or a password is refused with 400 and
\* the email and password of the account (and the rest of the store) are
\* unchanged; a non-admin's body without them is applied to their own account.
C13_AccountSelfOrAdmin ==
    [][\A caller \in DOMAIN users : \A is_admin \in BOOLEAN :
        \A id \in DOMAIN users : \A body \in UserBodies :
            (/\ last'.id = id \/ last'.op = "get_user_by_email"
             /\ UserResource_put(caller, is_admin, id, body))
                => IF ~(is_admin \/ caller = id)
                   THEN http'.status = 403 /\ UNCHANGED db
                   ELSE IF is_admin
                   THEN IF Has(body, "email") /\ EmailOfAnother(id, body)
                        THEN http'.status = 400 /\ UNCHANGED db
                        ELSE http'.status = 200
                   ELSE IF Has(body, "email") \/ Has(body, "password")
                   THEN /\ http'.status = 400
                        /\ http'.msg = "You cannot modify email or password"
                        /\ users'[id].email = users[id].email
                        /\ users'[id].password = users[id].password
                        /\ UNCHANGED db
                   ELSE http'.status = 200 /\ users'[id].first_name = body.first_name]_vars

\* an account that has renamed itself has just been refused a change of its
\* email or password
C13_Witness ==
    /\ http = Response("PUT /users", 400, "You cannot modify email or password")
    /\ last.ret \in DOMAIN users
    /\ users[last.ret].first_name = Jane
    /\ users[last.ret].password = hash_password(Password123)

\* C14: creating and deleting an account and creating, updating and deleting
\* an amenity go through exactly when the token carries the is_admin claim: an
\* admin is never answered 403 and a well-formed request of theirs is applied;
\* without the claim the answer is 403 and accounts, amenities and the rest of
\* the store are unchanged.
C14_AdminOnly ==
    [][\A is_admin \in BOOLEAN :
        /\ \A d \in UserBodies_post :
              UserList_post(is_admin, d)
                => IF ~is_admin THEN http'.status = 403 /\ UNCHANGED db
                   ELSE IF get_user_by_email(d.email) # NoId THEN http'.status = 400
                   ELSE http'.status = 201 /\ get_by_attribute(users', "email", d.email) # NoId
        /\ \A id \in IdsOf("users") :
              UserResource_delete(is_admin, id)
                => IF ~is_admin THEN http'.status = 403 /\ UNCHANGED db
                   ELSE IF id \in DOMAIN users
                   THEN http'.status = 204 /\ id \notin DOMAIN users'
                   ELSE http'.status = 404
        /\ \A d \in AmenityBodies :
              AmenityList_post(is_admin, d)
                => IF ~is_admin THEN http'.status = 403 /\ UNCHANGED db
                   ELSE IF get_by_attribute(amenities, "name", d.name) # NoId
                   THEN http'.status # 403
                   ELSE http'.status = 201
                        /\ get_by_attribute(amenities', "name", d.name) # NoId
        /\ \A id \in IdsOf("amenities") :
              /\ \A d \in AmenityBodies :
                    AmenityResource_put(is_admin, id, d)
                      => IF ~is_admin THEN http'.status = 403 /\ UNCHANGED db
                         ELSE IF id \notin DOMAIN amenities THEN http'.status = 404
                         ELSE IF get_by_attribute(amenities, "name", d.name) \in {NoId, id}
                         THEN http'.status = 200 /\ amenities'[id].name = d.name
                         ELSE http'.status # 403
              /\ AmenityResource_delete(is_admin, id)
                    => IF ~is_admin THEN http'.status = 403 /\ UNCHANGED db
                       ELSE IF id \in DOMAIN amenities
                       THEN http'.status = 204 /\ id \notin DOMAIN amenities'
                       ELSE http'.status = 404]_vars

\* a caller without the claim has just been refused the deletion of an
\* amenity, which persists beside an account an admin created
C14_Witness ==
    /\ http = Response("DELETE /amenities", 403, "Admin privileges required")
    /\ amenities # <<>>
    /\ users # <<>>

\* C15: PUT and DELETE of a listing or a review and PUT of an account whose
\* target is not persisted are answered 404, whoever the caller is, and change
\* nothing; 403 is answered only for a persisted target.
C15_ExistenceFirst ==
    [][/\ \A id \in IdsOf("places") :
            (http'.route \in {"PUT /places", "DELETE /places"} /\ last'.id = id)
                => \A caller \in IdsOf("users") : \A is_admin \in BOOLEAN :
                     (\/ PlaceResource_put(caller, is_admin, id, [title |-> Cabin])
                      \/ PlaceResource_delete(caller, is_admin, id))
                        => /\ id \notin DOMAIN places
                                => (http'.status = 404 /\ UNCHANGED db)
                           /\ http'.status = 403 => id \in DOMAIN places
       /\ \A id \in IdsOf("reviews") :
            (http'.route \in {"PUT /reviews", "DELETE /reviews"} /\ last'.id = id)
                => \A caller \in IdsOf("users") : \A is_admin \in BOOLEAN :
                     (\/ ReviewResource_put(caller, is_admin, id, [rating |-> Num(3)])
                      \/ ReviewResource_delete(caller, is_admin, id))
                        => /\ id \notin DOMAIN reviews
                                => (http'.status = 404 /\ UNCHANGED db)
                           /\ http'.status = 403 => id \in DOMAIN reviews
       /\ \A id \in IdsOf("users") :
            (http'.route = "PUT /users" /\ last'.id = id)
                => \A caller \in IdsOf("users") : \A is_admin \in BOOLEAN :
                     UserResource_put(caller, is_admin, id, [first_name |-> John])
                        => /\ id \notin DOMAIN users
                                => (http'.status = 404 /\ UNCHANGED db)
                           /\ http'.status = 403 => id \in DOMAIN users]_vars

\* the deletion of a review that was deleted before has just been answered
\* 404 while another review persists
C15_Witness ==
    /\ http = Response("DELETE /reviews", 404, "Review not found")
    /\ last.id \in 1..nextId.reviews
    /\ reviews # <<>>

\* C16: POST /places makes the caller the owner of the listing it creates,
\* whatever the body says: a body with no owner_id and a body with the id of
\* any account, persisted or not, both give a listing whose owner_id is the
\* caller's id; a caller whose account is not persisted creates nothing.
C16_CallerOwns ==
    [][\A caller \in IdsOf("users") : \A body \in PlaceBodies :
        (http'.route = "POST /places" /\ PlaceList_post(caller, body))
            => IF caller \in DOMAIN users
               THEN /\ http'.status = 201
                    /\ DOMAIN places' = (DOMAIN places) \cup {last'.ret}
                    /\ last'.ret \notin DOMAIN places
                    /\ places'[last'.ret].owner_id = caller
               ELSE http'.status = 404 /\ UNCHANGED db]_vars

\* the second account has just been made the owner of the listing it posted,
\* while the first account and a third exist
C16_Witness ==
    /\ http = Response("POST /places", 201, "")
    /\ last.ret \in DOMAIN places
    /\ places[last.ret].owner_id = 2
    /\ Cardinality(DOMAIN users) = 3

(***************************************************************************)
(* Field rules on update                                                   *)
(***************************************************************************)
\* every persisted listing has a title of 1 to 100 characters, a price of at
\* least 0, a latitude absent or in [-90, 90], a longitude absent or in
\* [-180, 180]
ListingRules == \A p \in DOMAIN places : ~OutOfRange(places[p])

\* C17: in every state reached by create_place and update_place with any
\* payloads every persisted listing satisfies the field rules, and an
\* update_place whose payload would break a rule reports a validation error.
C17_ListingRulesKept ==
    /\ []ListingRules
    /\ [][\A id \in DOMAIN places : \A d \in ListingUpdates :
            (OutOfRange(SetAttrs(places[id], d)) /\ update_place(id, d))
                => PlaceValidationFailed(last')]_vars

\* every persisted review has a non-empty text and a rating from 1 to 5
ReviewRules ==
    \A r \in DOMAIN reviews :
        /\ Truthy(reviews[r].text)
        /\ reviews[r].rating.v \in RatingMin..RatingMax

\* the validation errors of a review's text and rating
ReviewValidationFailed(o) ==
    /\ o.exc = "ValueError"
    /\ o.msg \in {"Review text is required", "Rating must be between 1 and 5"}

\* C18: in every state reached by create_review and update_review with any
\* payloads every persisted review has a non-empty text and a rating from 1 to
\* 5; a first review by an account that does not own the listing is accepted
\* with each of the ratings 1 to 5 and refused with a validation error for 0
\* and 6, and update_review accepts and refuses the same ratings.
C18_ReviewRulesKept ==
    /\ []ReviewRules
    /\ [][\A d \in RatedReviews :
            (/\ d.place_id \in DOMAIN places
             /\ d.user_id \in DOMAIN users
             /\ places[d.place_id].owner_id # d.user_id
             /\ ~AlreadyReviewed(d)
             /\ create_review(d))
                => IF Truthy(d.text) /\ d.rating.v \in RatingMin..RatingMax
                   THEN last'.exc = "" /\ reviews'[last'.ret].rating = d.rating
                   ELSE ReviewValidationFailed(last') /\ reviews' = reviews]_vars
    /\ [][\A id \in DOMAIN reviews : \A d \in ReviewUpdates :
            update_review(id, d)
                => IF Has(d, "rating") /\ d.rating.v \in RatingMin..RatingMax
                   THEN last'.exc = "" /\ reviews'[id].rating = d.rating
                   ELSE ReviewValidationFailed(last') /\ reviews' = reviews]_vars

(***************************************************************************)
(* References to accounts                                                  *)
(***************************************************************************)
\* the owner of every persisted listing and the author of every persisted
\* review is a persisted account
AccountReferences ==
    /\ \A p \in DOMAIN places : places[p].owner_id \in DOMAIN users
    /\ \A r \in DOMAIN reviews : reviews[r].user_id \in DOMAIN users

\* C19: in every state reached by the facade operations, delete_user and
\* update_place with any payload included, every listing's owner_id and every
\* review's user_id is the id of a persisted account; create_place naming an
\* owner that is not persisted reports "Owner not found" and persists nothing.
C19_AccountReferencesKept ==
    /\ []AccountReferences
    /\ [][\A owner \in IdsOf("users") :
            (owner \notin DOMAIN users /\ create_place(ValidPlace(owner, <<>>)))
                => /\ last'.exc = "ValueError"
                   /\ last'.msg = "Owner not found"
                   /\ UNCHANGED db]_vars

(***************************************************************************)
(* Amenities: uniqueness of the name                                       *)
(***************************************************************************)
\* the persisted amenities, other than `id`, that are named `name`
NamedLike(id, name) == {a \in DOMAIN amenities \ {id} : amenities[a].name = name}

\* the duplicate error of the facade: a ValueError that is not the validation
\* error of the name
DuplicateNameReported(o) ==
    /\ o.exc = "ValueError"
    /\ o.msg # "Amenity name is required and must be <= 50 characters"

\* C20: create_amenity with the name of a persisted amenity, and update_amenity
\* renaming an amenity to the name another one holds, report the duplicate
\* error as a ValueError, like a duplicate email, and leave the amenities as
\* they were, one of them with that name.
C20_DuplicateAmenityName ==
    [][\A name \in {WiFi, Pool} :
        /\ (NamedLike(NoId, name) # {} /\ create_amenity([name |-> name]))
              => /\ DuplicateNameReported(last')
                 /\ amenities' = amenities
                 /\ Cardinality(NamedLike(NoId, name)) = 1
        /\ \A id \in DOMAIN amenities :
              (NamedLike(id, name) # {} /\ update_amenity(id, [name |-> name]))
                => /\ DuplicateNameReported(last')
                   /\ amenities' = amenities
                   /\ Cardinality(NamedLike(id, name)) = 1]_vars

(***************************************************************************)
(* Updates: identity, absent targets, frame                                *)
(***************************************************************************)
\* the row `id` of the table is still there after the step, created when it was
SameIdentity(tbl, tblNext, id) ==
    id \in DOMAIN tblNext /\ tblNext[id].created_at = tbl[id].created_at

\* C21: update_user, update_place, update_review and update_amenity, with a
\* payload that names id or created_at, leave the target's id and created_at
\* as they were.
C21_IdentityKept ==
    [][/\ \A id \in DOMAIN users : \A d \in IdentityPayloads :
            update_user(id, d) => SameIdentity(users, users', id)
       /\ \A id \in DOMAIN places : \A d \in IdentityPayloads :
            update_place(id, d) => SameIdentity(places, places', id)
       /\ \A id \in DOMAIN reviews : \A d \in IdentityPayloads :
            update_review(id, d) => SameIdentity(reviews, reviews', id)
       /\ \A id \in DOMAIN amenities : \A d \in IdentityPayloads :
            update_amenity(id, d) => SameIdentity(amenities, amenities', id)]_vars

\* the call returned None and wrote nothing
ReturnedAbsent ==
    /\ last'.exc = ""
    /\ last'.ret = NoId
    /\ UNCHANGED db

\* C22: update_user, update_place, update_review and update_amenity called
\* with an id that is not persisted return None and leave every table as it
\* was: nothing is changed and nothing is created.
C22_UpdateAbsent ==
    [][\A d \in IdentityPayloads :
        /\ \A id \in IdsOf("users") :
              (id \notin DOMAIN users /\ update_user(id, d)) => ReturnedAbsent
        /\ \A id \in IdsOf("places") :
              (id \notin DOMAIN places /\ update_place(id, d)) => ReturnedAbsent
        /\ \A id \in IdsOf("reviews") :
              (id \notin DOMAIN reviews /\ update_review(id, d)) => ReturnedAbsent
        /\ \A id \in IdsOf("amenities") :
              (id \notin DOMAIN amenities /\ update_amenity(id, d))
                => ReturnedAbsent]_vars

\* update_user has just returned None for the id an account had before it was
\* given another, while a listing, a review and an amenity persist
C22_Witness ==
    /\ last.op = "update_user"
    /\ last.id \in 1..nextId.users
    /\ last.exc = ""
    /\ last.ret = NoId
    /\ places # <<>>
    /\ reviews # <<>>
    /\ amenities # <<>>

(***************************************************************************)
(* Deletes                                                                 *)
(***************************************************************************)
\* the delete of row `id` returned True exactly when the row was persisted,
\* the row is gone after True, and an unknown id changes nothing
DeletedIff(tbl, tblNext, id) ==
    /\ last'.exc = ""
    /\ last'.ok <=> id \in DOMAIN tbl
    /\ last'.ok => repo_get(tblNext, id) = NoId
    /\ id \notin DOMAIN tbl => UNCHANGED db

\* C23: delete_user, delete_place, delete_review and delete_amenity return
\* True exactly when a row with that id was persisted before the call; after
\* True the row is no longer found (so a second delete returns False), and a
\* delete of an unknown id changes nothing.
C23_DeleteIffPersisted ==
    [][/\ \A id \in IdsOf("users") :
            delete_user(id) => DeletedIff(users, users', id)
       /\ \A id \in IdsOf("places") :
            delete_place(id) => DeletedIff(places, places', id)
       /\ \A id \in IdsOf("reviews") :
            delete_review(id) => DeletedIff(reviews, reviews', id)
       /\ \A id \in IdsOf("amenities") :
            delete_amenity(id) => DeletedIff(amenities, amenities', id)]_vars

(***************************************************************************)
(* The two repositories                                                    *)
(***************************************************************************)
\* C24: an InMemoryRepository and a SQLAlchemyRepository given the same
\* sequence of add, get, get_all, update, delete and get_by_attribute calls
\* give the same result at every step.
C24_Interchangeable == answers.memory = answers.durable

(***************************************************************************)
(* Updates: only the supplied fields                                       *)
(***************************************************************************)
\* after an update of row `id` with payload `data`: the fields the payload
\* does not name are as before, and so is every other row of the table
OnlySupplied(tbl, tblNext, id, data) ==
    /\ DOMAIN tblNext = DOMAIN tbl
    /\ \A f \in (DOMAIN tbl[id]) \ (DOMAIN data) : tblNext[id][f] = tbl[id][f]
    /\ \A i \in (DOMAIN tbl) \ {id} : tblNext[i] = tbl[i]

C26_RehashOnlyIfSupplied ==
    [][\A id \in DOMAIN users : \A d \in AccountUpdate :
          (last'.op = "update_user" /\ last'.id = id /\ update_user(id, d)) =>
              IF Has(d, "password") /\ last'.ok
              THEN /\ verify_password(users'[id].password, d.password)
                   /\ users'[id].password # d.password
              ELSE users'[id].password = users[id].password]_vars

\* an account's password was replaced, and the new one verifies
C26_Witness ==
    /\ last.op = "update_user" /\ last.ok
    /\ verify_password(users[last.id].password, Password456)
    /\ ~verify_password(users[last.id].password, Password123)

(***************************************************************************)
(* Errors leave the tables alone                                           *)
(***************************************************************************)
\* the facade methods that create or update an entity
Writers ==
    {"create_user", "update_user", "create_place", "update_place",
     "create_review", "update_review", "create_amenity", "update_amenity"}

\* C27: a create_* or update_* call of the facade that reports an error
\* (a validation failure, a duplicate, a missing reference, a review of one's
\* own place) leaves the persisted state exactly as it was.
C27_ErrorsWriteNothing ==
    [][(last'.op \in Writers /\ last'.exc # "") => UNCHANGED db]_vars

\* with a review persisted, a second review of the same place by the same user
\* was refused at commit; an own-place review and a taken email were refused
\* by the facade in other steps
C27_Witness ==
    /\ last.op = "create_review" /\ last.exc = "IntegrityError"
    /\ reviews # <<>>
    /\ amenities # <<>>

(***************************************************************************)
(* Requests that overlap                                                   *)
(***************************************************************************)
\* two requests of different clients that ask for the same thing
SameEmail(a, b) == a # b /\ requests[a].payload.email = requests[b].payload.email

\* C28: of two account-creation requests with the same email that overlap,
\* however their lookups and inserts interleave, at most one account with that
\* email is persisted and at most one request gets the success response.
C28_OneRegistrationWins ==
    /\ \A a, b \in DOMAIN users : a # b => users[a].email # users[b].email
    /\ \A a, b \in DOMAIN requests :
          SameEmail(a, b) => ~(requests[a].status = 201 /\ requests[b].status = 201)

\* both requests passed both lookups before either inserted: the first insert
\* was answered 201 and the second was refused by the database
C28_Witness ==
    /\ DOMAIN requests = Clients
    /\ SameEmail(1, 2)
    /\ requests[1].status = 201
    /\ requests[2].status = 500

SameReview(a, b) ==
    /\ a # b
    /\ requests[a].caller = requests[b].caller
    /\ requests[a].payload.place_id = requests[b].payload.place_id

\* C29: of two review-creation requests by the same caller for the same
\* listing that overlap, however their lookups and inserts interleave, at most
\* one review of that listing by that caller is persisted and at most one
\* request gets the success response.
C29_OneReviewWins ==
    /\ \A a, b \in DOMAIN reviews :
          (a # b /\ reviews[a].user_id = reviews[b].user_id)
              => reviews[a].place_id # reviews[b].place_id
    /\ \A a, b \in DOMAIN requests :
          SameReview(a, b) => ~(requests[a].status = 201 /\ requests[b].status = 201)

\* both requests found no review of the listing by the guest before either
\* inserted: one was answered 201 and the other was refused by the database
C29_Witness ==
    /\ DOMAIN requests = Clients
    /\ SameReview(1, 2)
    /\ requests[1].status = 500
    /\ requests[2].status = 201

(***************************************************************************)
(* Privileges                                                              *)
(***************************************************************************)
\* C30: after any sequence of requests by callers that are not admins, with
\* any payloads, an is_admin in an account update included, every account
\* whose is_admin was false is still not an admin and no new admin exists.
\* Every account here is created without is_admin.
C30_NoEscalation == \A u \in DOMAIN users : ~users[u].is_admin

=============================================================================
